---- MODULE Spec2Model ----
(***************************************************************************)
(* GitHub API gateway of ghe_policy_check                                  *)
(* (src/src/ghe_policy_check/common/github_api/github_instance.py).        *)
(*                                                                         *)
(* The gateway is a Python object (GitHubInstance) whose methods call each *)
(* other recursively.  The model is an interpreter for those methods: a    *)
(* call stack of frames, one frame per active method call, a pending       *)
(* return value / exception, and a heap holding the token lists and the    *)
(* instances.  The remote server is the environment: every HTTP attempt    *)
(* draws its answer (status code and JSON message) nondeterministically.   *)
(***************************************************************************)
EXTENDS Integers, Sequences, FiniteSets, TLC

(***************************************************************************)
(* Bounds of the model.                                                    *)
(***************************************************************************)
\* Largest number of tokens in the configured token list.
MaxTokens == 2
\* Deepest call stack explored: stands for the interpreter's recursion limit
\* (a call beyond it raises RecursionError, as CPython does).
MaxDepth == 8
\* Longest token list given to a run of rotations.
MaxRotated == 3
\* Most pages a collection has, and most items on one page.
MaxPages == 2
MaxItems == 2

(***************************************************************************)
(* Program constants.                                                      *)
(***************************************************************************)
\* GitHubInstance.ALL_SCOPES
ALL_SCOPES == <<"repo", "admin:org", "user", "site_admin">>
\* sleep((reset_time - time() + 5))
SleepMargin == 5

\* Identities that can be impersonated.
Users == {"alice"}
NoUser == "<None>"

(***************************************************************************)
(* Tokens, headers, URLs, request options.                                 *)
(***************************************************************************)
\* A token is opaque to the gateway; the model remembers whose it is and the
\* scopes the server granted when it minted it.
Token(owner, scopes) == [owner |-> owner, scopes |-> scopes]
NoToken == Token("<none>", << >>)
AdminTokens == <<Token("admin1", ALL_SCOPES), Token("admin2", ALL_SCOPES),
                 Token("admin3", ALL_SCOPES), Token("admin4", ALL_SCOPES)>>

\* f"Bearer {token}"
Bearer(token) == [scheme |-> "Bearer", token |-> token]

\* GitHubInstance.Endpoints (the ones the gateway itself calls, and one data
\* endpoint standing for every caller-chosen URL).
Url(ep, arg) == [ep |-> ep, arg |-> arg]
RATE_LIMIT == Url("/rate_limit", "")
IMPERSONATE(username) == Url("/admin/users/{}/authorizations", username)
SUSPEND_USER(user) == Url("/users/{}/suspended", user)
REPO_BY_ID == Url("/repositories/{}", "1")
ORGANIZATIONS == "/organizations"
SEARCH_REPOS == "/search/repositories"
NoUrl == Url("<None>", "")

\* **kwargs of a verb call: either none or a json= body.
NoKwargs == [json |-> [none |-> TRUE]]
Json(body) == [json |-> body]
ScopesBody(scopes) == [scopes |-> scopes]
ReasonBody(reason) == [reason |-> reason]
\* The scopes the server reads from the body of a token-creation POST.
RequestedScopes(kw) ==
    IF "scopes" \in DOMAIN kw.json THEN kw.json.scopes ELSE << >>

(***************************************************************************)
(* Values passed between frames.                                           *)
(***************************************************************************)
\* A response also carries its status code, the items of its JSON body and
\* the links of its Link header.
Value(tag, reset, token) ==
    [tag |-> tag, reset |-> reset, token |-> token, status |-> 0, items |-> << >>,
     links |-> << >>]
NoValue == Value("none", 0, NoToken)
ResponseValue(reset, token) == Value("response", reset, token)
TokenValue(token) == Value("token", 0, token)
ScopeExitValue == Value("exit", 0, NoToken)
PageValue(items, links) ==
    [ResponseValue(0, NoToken) EXCEPT !.items = items, !.links = links]
StopIteration == Value("StopIteration", 0, NoToken)

(***************************************************************************)
(* The server's answers and the error classifier.                          *)
(***************************************************************************)
\* A JSON "message" is a sequence of text chunks, so that `"rate limit" in
\* message` is a search and not an equality; has = FALSE is a body without a
\* message field (message is None).
Message(chunks) == [has |-> TRUE, text |-> chunks]
NoMessage == [has |-> FALSE, text |-> << >>]
SuspendedMessage == Message(<<"Sorry. Your account was suspended.">>)
BlockedMessage == Message(<<"Repository access blocked">>)
BadCredentialsMessage == Message(<<"Bad credentials">>)
RateLimitMessage == Message(<<"API ", "rate limit", " exceeded for user ID 1.">>)
NotFoundMessage == Message(<<"Not Found">>)

Answer(status, message) == [status |-> status, message |-> message]
ServerAnswers ==
    { Answer(200, NoMessage),
      Answer(403, RateLimitMessage),
      Answer(401, BadCredentialsMessage),
      Answer(403, SuspendedMessage),
      Answer(404, NotFoundMessage),
      Answer(403, BlockedMessage),
      Answer(422, Message(<<"Validation Failed">>)),
      Answer(500, Message(<<"Server Error">>)),
      Answer(500, NoMessage) }

\* Times the rate-limit endpoint can report and the clock can show.
ResetTimes == {0, 20}
ClockTimes == {10}

Contains(message, chunk) == \E k \in DOMAIN message.text : message.text[k] = chunk

\* (Fault: the message tests come before the status-code tests.)
raise_error_message_first(answer) ==
    IF answer.message = SuspendedMessage THEN "GithubAccountSuspendedException"
    ELSE IF answer.message = BlockedMessage THEN "GithubRepositoryBlockedException"
    ELSE IF answer.message = BadCredentialsMessage THEN "GithubBadCredentialsException"
    ELSE IF answer.status = 422 THEN "GithubClientException"
    ELSE IF answer.status = 404 THEN "GithubNotFoundException"
    ELSE IF ~answer.message.has THEN "TypeError"
    ELSE IF Contains(answer.message, "rate limit") THEN "RateLimitException"
    ELSE "HTTPError"

\* GitHubInstance.raise_error: the exception raised for a failed response
\* ("HTTPError" is `raise error`, the error raise_for_status built; with no
\* message in the body `"rate limit" in message` is a TypeError).
raise_error(answer) ==
    IF answer.status = 422 THEN "GithubClientException"
    ELSE IF answer.status = 404 THEN "GithubNotFoundException"
    ELSE IF answer.message = SuspendedMessage THEN "GithubAccountSuspendedException"
    ELSE IF answer.message = BlockedMessage THEN "GithubRepositoryBlockedException"
    ELSE IF answer.message = BadCredentialsMessage THEN "GithubBadCredentialsException"
    ELSE IF ~answer.message.has THEN "TypeError"
    ELSE IF Contains(answer.message, "rate limit") THEN "RateLimitException"
    ELSE "HTTPError"

\* GitHubInstance.handle_error: "none" for a 2xx answer (raise_for_status
\* raises for 4xx and 5xx only).
handle_error(answer) ==
    IF answer.status >= 400 /\ answer.status < 600 THEN raise_error(answer) ELSE "none"

(***************************************************************************)
(* Paginated collections on the server.                                    *)
(***************************************************************************)
\* `"?" in url`
Has(text, char) == \E k \in 1..Len(text) : SubSeq(text, k, k) = char
HasQuery(url) == Has(url.ep, "?") \/ Has(url.arg, "?")
\* url + "&per_page=100" if "?" in url else url + "?per_page=100"
PageSized(url) ==
    Url(url.ep, url.arg \o (IF HasQuery(url) THEN "&per_page=100" ELSE "?per_page=100"))

\* The URLs the server names in its Link headers, by page number.
PageQueries == <<"?page=1", "?page=2", "?page=3", "?page=4">>
PageUrl(ep, n) == Url(ep, PageQueries[n])
\* The page a URL stands for: the page its query names, else the first page.
PageNo(url) ==
    IF \E n \in DOMAIN PageQueries : url.arg = PageQueries[n]
    THEN CHOOSE n \in DOMAIN PageQueries : url.arg = PageQueries[n]
    ELSE 1

Link(rel, url) == [rel |-> rel, url |-> url]
\* Link headers the server can send with page n: none at all, one without a
\* next relation, and (if there is a further page) one with it after others.
PageLinks(url) ==
    { << >>, <<Link("first", PageUrl(url.ep, 1))>> }
    \cup (IF PageNo(url) < MaxPages
          THEN { <<Link("first", PageUrl(url.ep, 1)),
                   Link("next", PageUrl(url.ep, PageNo(url) + 1)),
                   Link("last", PageUrl(url.ep, MaxPages))>> }
          ELSE {})
Item(page, k) == [page |-> page, k |-> k]
\* The items a page can hold, in the order of the JSON array.
PageItems(url) ==
    { [k \in 1..n |-> Item(PageNo(url), k)] : n \in 0..MaxItems }

\* What a 2xx answer carries, by endpoint: the reset time of the rate-limit
\* endpoint, the token minted by a POST to the impersonation endpoint, or a
\* page of a collection.
ResponseBodies(verb, url, kw) ==
    IF url.ep = RATE_LIMIT.ep
    THEN { ResponseValue(t, NoToken) : t \in ResetTimes }
    ELSE IF url.ep \in {ORGANIZATIONS, SEARCH_REPOS}
    THEN { PageValue(items, links) : items \in PageItems(url), links \in PageLinks(url) }
    ELSE IF url.ep = IMPERSONATE("").ep /\ verb = "post"
    THEN { ResponseValue(0, Token(url.arg, RequestedScopes(kw))) }
    ELSE { ResponseValue(0, NoToken) }

(***************************************************************************)
(* State.                                                                  *)
(***************************************************************************)
VARIABLES
    lists,        \* heap of token list objects: list reference -> sequence of tokens
    inst,         \* the gateway instances: tokens (a list reference), headers, impersonating
    stack,        \* call stack, innermost frame last
    ret,          \* value being returned to the top frame (NoValue if none)
    exc,          \* exception propagating to the top frame ("none" if none)
    last,         \* the operation the caller invoked last and how it ended
    step,         \* what the latest step of the program did: the HTTP call it issued
                  \* (what was sent, how the answer was classified) and the calls it made
    trace,        \* calls made by the current impersonate_user scope, in order
    pager,        \* the pagination generator in use: page fetches made, items yielded
    rotated,      \* rotation run: the tokens and header it started from, rotations done
    classified,   \* error classifier run: the failed response, the exception raised
    webhook,      \* webhook dispatcher: the handler registry and the request in hand
    polling,      \* repo_polling task: the repo rows, the repos in hand, the calls made
    sync,         \* collaborator sync tasks of one repo: clock, row, lock, each task's position
    collab,       \* the same tasks past the lock: fetches made, the repo's collaborators
    accounts,     \* User rows and the from_github_user calls in progress
    scopes        \* one identity on GitHub and the impersonation scopes of concurrent tasks

vars == <<lists, inst, stack, ret, exc, last, step, trace, pager, rotated, classified, webhook,
          polling, sync, collab, accounts, scopes>>
\* The state outside the call stack of the gateway described so far.
aux == <<pager, rotated, classified, webhook, polling, sync, collab, accounts,
         scopes>>

\* "parent" and "peer" are built by callers from the configured token list,
\* "child" is the impersonating instance impersonate_user builds.
Insts == {"parent", "child", "peer"}
\* List objects: the configured token list, the literal [token] built for an
\* impersonating instance, and the literal [token] built by a token refresh.
ListRefs == {"settings", "impersonated", "refreshed"}

Instance(tokens, auth, impersonating, alive) ==
    [tokens |-> tokens, auth |-> auth, impersonating |-> impersonating, alive |-> alive]
NoInstance == Instance("impersonated", Bearer(NoToken), NoUser, FALSE)

Frame(fn, self, pc, verb, url, retry, kw, user) ==
    [fn |-> fn, self |-> self, pc |-> pc, verb |-> verb, url |-> url, retry |-> retry,
     kw |-> kw, user |-> user, pend |-> "none"]
RequestFrame(self, verb, url, retry, kw) ==
    Frame("request", self, "call", verb, url, retry, kw, NoUser)
TokenFrame(self, username) ==
    Frame("get_impersonation_token", self, "enter", "", IMPERSONATE(username), 0, NoKwargs, username)
ScopeFrame(self, username) ==
    Frame("impersonate_user", self, "enter", "", IMPERSONATE(username), 0, NoKwargs, username)

Top == stack[Len(stack)]
Front(s) == SubSeq(s, 1, Len(s) - 1)
SetTop(f) == [stack EXCEPT ![Len(stack)] = f]
Tokens(i) == lists[inst[i].tokens]

Step(kind, self, verb, url, kw, auth, retry, count, error, calls, duration) ==
    [kind |-> kind, self |-> self, verb |-> verb, url |-> url, kw |-> kw, auth |-> auth,
     retry |-> retry, count |-> count, error |-> error, calls |-> calls,
     duration |-> duration]
\* A step that issues no HTTP call.
Plain(kind, self, calls) ==
    Step(kind, self, "", REPO_BY_ID, NoKwargs, Bearer(NoToken), 0, 0, "none", calls, 0)
NoStep == Plain("none", "parent", << >>)
NoOperation == [op |-> "none", self |-> "parent", status |-> "none", exc |-> "none"]

(***************************************************************************)
(* Webhook dispatcher (common/github_api/webhook_dispatcher.py): names,    *)
(* signatures, the handler registry.                                       *)
(***************************************************************************)
\* An event or action name: its letters, and whether it is written with
\* upper-case letters ("push" and "Push" are two names with the same letters).
Name(letters, upper) == [letters |-> letters, upper |-> upper]
NoName == Name("<None>", FALSE)
\* str.lower()
lower(name) == [name EXCEPT !.upper = FALSE]
EventNames == { Name("push", FALSE), Name("push", TRUE) }
ActionNames == { Name("opened", FALSE), Name("opened", TRUE) }
Handlers == {"handler1", "handler2"}

\* hmac.new(secret, msg=body, digestmod=sha1).hexdigest(): one digest for
\* each key and message.
HMAC(key, msg) == [key |-> key, msg |-> msg]
\* settings.GITHUB_WEBHOOK_KEY
WebhookKey == "key"
Bodies == {"payload"}
\* The X-Hub-Signature header: absent, or a string, given as the parts that
\* signature.split("=") returns.
NoSignature == [present |-> FALSE, parts |-> << >>]
Signature(parts) == [present |-> TRUE, parts |-> parts]
Signatures ==
    { NoSignature,
      Signature(<<"sha1", HMAC(WebhookKey, "payload")>>),
      Signature(<<"sha1", HMAC(WebhookKey, "other payload")>>),
      Signature(<<"sha1", HMAC("guess", "payload")>>),
      Signature(<<"sha256", HMAC(WebhookKey, "payload")>>),
      Signature(<<"sha1">>) }

\* A slot of WebhookDispatcher.registry: nothing, a handler for every action
\* of the event, or a dict from action names to handlers.
NoActions == [a \in ActionNames |-> "none"]
Absent == [kind |-> "absent", handler |-> "none", actions |-> NoActions]
EventHandler(handler) == [kind |-> "handler", handler |-> handler, actions |-> NoActions]
ActionHandlers(actions) == [kind |-> "actions", handler |-> "none", actions |-> actions]

WebhookRequest(event, action, signature, body) ==
    [event |-> event, action |-> action, signature |-> signature, body |-> body]
NoRequest == WebhookRequest(NoName, NoName, NoSignature, "")
\* The latest use of @WebhookDispatcher.register(event, action) on a handler.
Registration(event, action, handler) ==
    [event |-> event, action |-> action, handler |-> handler]
NoRegistration == Registration(NoName, NoName, "none")
\* registry = {} and no request received.
NoWebhook ==
    [registry |-> [e \in EventNames |-> Absent], call |-> NoRegistration,
     registered |-> "none",
     state |-> "Idle", request |-> NoRequest, invoked |-> << >>, raised |-> "none",
     result |-> "none", response |-> "none"]

(***************************************************************************)
(* Repo polling and collaborator sync: the data (tasks.py,                 *)
(* repo_polling.py, sync_repo_collaborators.py, models.py, utils.py).      *)
(***************************************************************************)
\* Repo rows in the database.
MaxRepos == 3
Repos == 1..MaxRepos
\* Timestamps are whole numbers; NoTime is a null timestamp.
NoTime == 0
\* timedelta(minutes=settings.REMINDER_MINUTES) - timedelta(seconds=30).
ReminderPeriod == 2
\* settings.REMINDER_MINUTES // settings.POLLING_PERIOD_MINUTES.
PollingPeriods == 2
\* timezone.now() while the polling task runs, and the last_polling_check
\* values rows have before it: never checked, long ago, recently.
PollingTime == 4
CheckTimes == {NoTime, 1, 3}
\* settings.GITHUB_OWNER_USER, and the owner a repo row has at first.
GITHUB_OWNER_USER == "ghadmin"
RepoOwner == "owner"
NoOwner == "none"

\* A Repo object: the fields the polling task reads and writes.
LocalRepo(org, last_polling_check, disabled, owner) ==
    [org |-> org, last_polling_check |-> last_polling_check, disabled |-> disabled,
     owner |-> owner]
NoRepo == LocalRepo(FALSE, NoTime, FALSE, NoOwner)
\* What the database holds for a repo: save() stores the object, delete()
\* removes the row.
save(local_repo) == [stored |-> TRUE, repo |-> local_repo]
delete(local_repo) == [stored |-> FALSE, repo |-> NoRepo]

\* What a use of the gateway gives: None, the GitHub repo, or an exception.
None == [kind |-> "None", disabled |-> FALSE]
GitHubRepo(disabled) == [kind |-> "repo", disabled |-> disabled]
Raising(error) == [kind |-> error, disabled |-> FALSE]
NotFound == "GithubNotFoundException"
RepositoryBlocked == "GithubRepositoryBlockedException"
AccountSuspended == "GithubAccountSuspendedException"
\* impersonated_gh.get_repo_by_id(...).json(), as get_github_repo passes it on.
get_github_repo ==
    {GitHubRepo(FALSE), GitHubRepo(TRUE), Raising(NotFound), Raising(RepositoryBlocked),
     Raising(AccountSuspended)}
\* github.get_org_admins(org): the logins of the admins GitHub lists.
OrgAdmins ==
    {<< >>, <<GITHUB_OWNER_USER>>, <<GITHUB_OWNER_USER, "alice">>, <<"bob", "alice">>}

\* One call of get_and_update_repo: the object passed in, the object and the
\* row it leaves, the fetches it made, and what it returned or raised.
Outcome(before, local_repo, row, fetched, returned, raised) ==
    [before |-> before, local_repo |-> local_repo, row |-> row, fetched |-> fetched,
     returned |-> returned, raised |-> raised]
NoCall == Outcome(NoRepo, NoRepo, delete(NoRepo), << >>, None, "none")
\* One line of what the polling task did.
Event(op, repo, flag) == [op |-> op, repo |-> repo, flag |-> flag]

\* Runs of the polling task the beat schedule starts one after the other.
MaxRuns == 3
\* The polling task: the rows, where the run stands, its time, its repos,
\* and its locals; then what it did, how many runs were started, how many
\* runs in a row ended without an exception, and the run each repo was
\* last polled in.
NoPolling ==
    [db |-> [r \in Repos |-> delete(NoRepo)], pc |-> "off", now |-> NoTime, queue |-> << >>,
     pos |-> 0, local_repo |-> NoRepo, needs_reminder |-> FALSE, github_repo |-> None,
     call |-> NoCall, log |-> << >>, run |-> 0, streak |-> 0,
     polled |-> [r \in Repos |-> 0]]

\* Sync requests sent for one repo.
MaxSyncTasks == 3
SyncTasks == 1..MaxSyncTasks
NoTask == 0
\* TIME_FORMAT = "%Y%m%d%H%M%S%f": the timestamp as zero-padded decimal
\* digits, most significant first, down to the clock's resolution.
strftime(time) == <<time \div 10, time % 10>>
\* datetime.strptime(sent, TIME_FORMAT).replace(tzinfo=pytz.UTC)
strptime(sent) == sent[1] * 10 + sent[2]
\* The row of the repo as the sync tasks see it.
SyncRow(stored, collaborators_synced) ==
    [stored |-> stored, collaborators_synced |-> collaborators_synced]
\* One sync request: where its task stands, the `sent` argument, the
\* collaborators_synced of its local_repo object, and the clock value at
\* which it took the lock.
SyncTask(pc, sent, collaborators_synced, locked_at) ==
    [pc |-> pc, sent |-> sent, collaborators_synced |-> collaborators_synced,
     locked_at |-> locked_at]
NoSyncTask == SyncTask("none", strftime(NoTime), NoTime, NoTime)
NoSync ==
    [clock |-> NoTime, row |-> SyncRow(FALSE, NoTime), lock |-> NoTask,
     tasks |-> [t \in SyncTasks |-> NoSyncTask]]

\* Sync tasks of one repo that have passed the lock and sync at once.
MaxWriters == 2
Writers == 1..MaxWriters
\* settings.MAX_SYNC_RETRY
MAX_SYNC_RETRY == 1
\* local_repo.org.owner
OrgOwner == "org owner"
\* GitHub users a repo may have; the last one has no local User row.
GitHubUsers == {"u1", "u2", "ghost"}
LocalUsers == {"u1", "u2"}
\* What one fetch attempt gives: the GitHub users of the repo at that
\* moment, or an exception.
Collaborators(users) == [kind |-> "list", users |-> users]
NoCollaborators == [kind |-> "None", users |-> {}]
Failing(error) == [kind |-> error, users |-> {}]
NoFetch == [kind |-> "none", users |-> {}]
get_repo_collaborators ==
    {Collaborators(users) : users \in {{}, {"u1"}, {"u2", "ghost"}}}
        \cup {Failing(error) : error \in {NotFound, RepositoryBlocked, AccountSuspended}}
\* One task past the lock: where it stands, the owner of its local_repo
\* object, which call of _get_repo_collaborators it is in and at which
\* retry, the fetch attempts of that call, and the collaborators it holds.
Writer(pc, owner, call, retry, attempts, collaborators) ==
    [pc |-> pc, owner |-> owner, call |-> call, retry |-> retry, attempts |-> attempts,
     collaborators |-> collaborators]
NoWriter == Writer("none", NoOwner, 0, 0, 0, NoFetch)
NoCollab ==
    [org |-> FALSE, owner |-> NoOwner, collaborators |-> {}, latest |-> NoFetch,
     tasks |-> [w \in Writers |-> NoWriter]]

\* User rows and callers of User.from_github_user for one GitHub user.
MaxCallers == 2
Callers == 1..MaxCallers
\* github_user["id"] of that user, and the github_id of an older account.
GitHubId == 1
OldId == 9
\* github_user["login"]: the user may have been renamed between two events.
Logins == {"alice", "alice2"}
\* A User row; its primary key is its place in the table.
UserRow(username, github_id) == [username |-> username, github_id |-> github_id]
NoPk == 0
\* One call of from_github_user: where it stands, the login it was given,
\* the row it holds or returns, and whether it met an IntegrityError.
UserCall(pc, login, pk, integrity_error) ==
    [pc |-> pc, login |-> login, pk |-> pk, integrity_error |-> integrity_error]
NoUserCall == UserCall("none", "", NoPk, FALSE)
NoAccounts == [rows |-> << >>, calls |-> [c \in Callers |-> NoUserCall]]

\* Tasks that impersonate the same identity at once, each with its own
\* gateway instance.
MaxScopes == 2
ScopeTasks == 1..MaxScopes
\* One task: where it stands, its open impersonate_user scopes, innermost
\* last (TRUE for a scope that unsuspended the identity), and the retry
\* argument of _get_repo_collaborators.
ScopeTask(pc, open, retry) == [pc |-> pc, open |-> open, retry |-> retry]
NoScopeTask == ScopeTask("none", << >>, 0)
\* The identity on GitHub and the tasks.
NoScopes == [suspended |-> FALSE, tasks |-> [t \in ScopeTasks |-> NoScopeTask]]

\* Nothing paginated, rotated, classified or received yet.
NoPager ==
    [fn |-> "none", self |-> "parent", url |-> NoUrl, fetched |-> << >>, served |-> << >>,
     logged |-> << >>, yielded |-> << >>]
NoRotation == [origin |-> << >>, auth |-> Bearer(NoToken), n |-> 0]
NoClassification == [answer |-> Answer(200, NoMessage), raised |-> "none", done |-> FALSE]
Idle ==
    /\ pager = NoPager
    /\ rotated = NoRotation
    /\ classified = NoClassification
    /\ webhook = NoWebhook
    /\ polling = NoPolling
    /\ sync = NoSync
    /\ collab = NoCollab
    /\ accounts = NoAccounts
    /\ scopes = NoScopes

Init ==
    /\ Idle
    /\ \E n \in 1..MaxTokens : lists = [l \in ListRefs |->
                                  IF l = "settings" THEN SubSeq(AdminTokens, 1, n) ELSE << >>]
    /\ inst = [i \in Insts |->
                  IF i = "parent"
                  THEN Instance("settings", Bearer(AdminTokens[1]), NoUser, TRUE)
                  ELSE NoInstance]
    /\ stack = << >>
    /\ ret = NoValue
    /\ exc = "none"
    /\ last = NoOperation
    /\ step = NoStep
    /\ trace = << >>

(***************************************************************************)
(* Calls, returns and exceptions.                                          *)
(***************************************************************************)
\* The top frame is waiting for nothing: it was just called.
Running == ret = NoValue /\ exc = "none"
\* A callee has just returned to, or raised into, the top frame.
Delivered == ret # NoValue \/ exc # "none"

\* The current frame (left as `caller`) calls `callee`.
Call(caller, callee) ==
    IF Len(stack) < MaxDepth
    THEN stack' = Append(SetTop(caller), callee) /\ ret' = NoValue /\ exc' = "none"
    ELSE stack' = SetTop(caller) /\ ret' = NoValue /\ exc' = "RecursionError"
\* The current frame returns v to its caller.
Return(v) == stack' = Front(stack) /\ ret' = v /\ exc' = "none"
\* The current frame raises e into its caller.
Raise(e) == stack' = Front(stack) /\ ret' = NoValue /\ exc' = e

(***************************************************************************)
(* GitHubInstance.__init__ and rotate_token.                               *)
(***************************************************************************)
\* GitHubInstance(tokens, impersonating=...): self.tokens is the list object
\* passed in, the headers are a fresh dict with the first token in it.
GitHubInstance(ls, tokens, impersonating) ==
    Instance(tokens, Bearer(Head(ls[tokens])), impersonating, TRUE)

\* (Fault: rotate_token takes the last token and puts it in front.)
RotatedBackwards(tokens) == <<tokens[Len(tokens)]>> \o SubSeq(tokens, 1, Len(tokens) - 1)

\* The list after tokens.pop(0) and tokens.append(old_token).
RotatedTokens(tokens) == Tail(tokens) \o <<Head(tokens)>>

rotate_token(i) ==
    /\ lists' = [lists EXCEPT ![inst[i].tokens] = RotatedTokens(@)]
    /\ inst' = [inst EXCEPT ![i].auth = Bearer(Head(lists'[inst[i].tokens]))]

(***************************************************************************)
(* GitHubInstance.request and _handle_rate_limit_exception.                *)
(***************************************************************************)
\* time.sleep raises ValueError for a negative duration.
sleep(duration) == IF duration < 0 THEN "ValueError" ELSE "none"
\* (Fault: the except ValueError clause is missing.)
SleepUncaught(reset_time, now) == sleep(reset_time - now + SleepMargin)

\* try: sleep(...) except ValueError: pass
SleepUntilReset(reset_time, now) ==
    IF sleep(reset_time - now + SleepMargin) = "ValueError"
    THEN "none"
    ELSE sleep(reset_time - now + SleepMargin)

\* The options request() passes to the attempt it re-issues after handling
\* an error: neither recursive call forwards **kwargs.
RetryKwargs(kw) == NoKwargs

\* (Fault: the rotation test is off by one, `retry < len(self.tokens) - 2`.)
handle_rate_limit_exception_late(f) ==
    IF f.retry < Len(Tokens(f.self)) - 2
    THEN /\ rotate_token(f.self)
         /\ Call([f EXCEPT !.pc = "return"],
                 RequestFrame(f.self, f.verb, f.url, f.retry + 1, NoKwargs))
    ELSE IF f.retry > 2 * Len(Tokens(f.self))
    THEN /\ Raise("Exception: Rate limit retries failed")
         /\ UNCHANGED <<lists, inst>>
    ELSE /\ Call([f EXCEPT !.pc = "reset_time"],
                 RequestFrame(f.self, "get", RATE_LIMIT, 0, NoKwargs))
         /\ UNCHANGED <<lists, inst>>

\* _handle_rate_limit_exception(verb, url, retry) up to its first call.
handle_rate_limit_exception(f) ==
    IF f.retry < Len(Tokens(f.self)) - 1
    THEN /\ rotate_token(f.self)
         /\ Call([f EXCEPT !.pc = "return"],
                 RequestFrame(f.self, f.verb, f.url, f.retry + 1, RetryKwargs(f.kw)))
    ELSE IF f.retry > 2 * Len(Tokens(f.self))
    THEN /\ Raise("Exception: Rate limit retries failed")
         /\ UNCHANGED <<lists, inst>>
    ELSE \* get_rate_limit_reset(): self.get(base_url + RATE_LIMIT)
         /\ Call([f EXCEPT !.pc = "reset_time"],
                 RequestFrame(f.self, "get", RATE_LIMIT, 0, NoKwargs))
         /\ UNCHANGED <<lists, inst>>
\* The calls it makes, in order.
RateLimitCalls(f) ==
    IF f.retry < Len(Tokens(f.self)) - 1 THEN <<"rotate_token", "request">>
    ELSE IF f.retry > 2 * Len(Tokens(f.self)) THEN << >>
    ELSE <<"get_rate_limit_reset">>

\* (Fault: the test `if not self.impersonating or retry: raise` is missing.)
handle_bad_credentials_always(f) ==
    Call([f EXCEPT !.pc = "refresh"], TokenFrame(f.self, inst[f.self].impersonating))

\* except GithubBadCredentialsException: ... up to its first call.
handle_bad_credentials(f) ==
    IF inst[f.self].impersonating = NoUser \/ f.retry # 0
    THEN Raise("GithubBadCredentialsException")
    ELSE Call([f EXCEPT !.pc = "refresh"], TokenFrame(f.self, inst[f.self].impersonating))
BadCredentialsCalls(f) ==
    IF inst[f.self].impersonating = NoUser \/ f.retry # 0
    THEN << >>
    ELSE <<"get_impersonation_token">>

\* The stack once every request() frame at its `return self.request(...)`
\* has returned.
RECURSIVE Returned(_)
Returned(s) ==
    IF s # << >> /\ s[Len(s)].fn = "request" /\ s[Len(s)].pc = "return"
    THEN Returned(Front(s))
    ELSE s

\* One HTTP attempt of request(): verb(url, headers=self.headers, **kwargs),
\* handle_error(response) and the entry of the matching except clause.
RequestAttempt ==
    /\ stack # << >> /\ Top.fn = "request" /\ Top.pc = "call" /\ Running
    /\ \E answer \in ServerAnswers :
       \E body \in ResponseBodies(Top.verb, Top.url, Top.kw) :
          LET f == Top
              error == handle_error(answer)
              calls == CASE error = "RateLimitException" -> RateLimitCalls(f)
                         [] error = "GithubBadCredentialsException" -> BadCredentialsCalls(f)
                         [] OTHER -> << >>
          IN /\ step' = Step("attempt", f.self, f.verb, f.url, f.kw, inst[f.self].auth,
                             f.retry, Len(Tokens(f.self)), error, calls, 0)
             /\ CASE error = "none" ->
                       /\ Return([body EXCEPT !.status = answer.status])
                       /\ UNCHANGED <<lists, inst>>
                  [] error = "RateLimitException" ->
                       handle_rate_limit_exception(f)
                  [] error = "GithubBadCredentialsException" ->
                       handle_bad_credentials(f) /\ UNCHANGED <<lists, inst>>
                  [] OTHER ->
                       Raise(error) /\ UNCHANGED <<lists, inst>>
    /\ UNCHANGED <<last, trace>>
    /\ UNCHANGED aux

\* request() continues after a call it made has returned.
RequestResume ==
    /\ stack # << >> /\ Top.fn = "request" /\ Top.pc # "call"
    /\ ret # NoValue /\ exc = "none"
    /\ LET f == Top
       IN CASE f.pc = "reset_time" ->
                 \* reset_time came back: sleep, then request(verb, url, retry + 1)
                 \E now \in ClockTimes :
                    /\ IF SleepUntilReset(ret.reset, now) = "none"
                       THEN /\ Call([f EXCEPT !.pc = "return"],
                                    RequestFrame(f.self, f.verb, f.url, f.retry + 1,
                                                 RetryKwargs(f.kw)))
                            /\ step' = Step("slept", f.self, f.verb, f.url, f.kw,
                                            inst[f.self].auth, f.retry, Len(Tokens(f.self)),
                                            "none", <<"sleep", "request">>,
                                            ret.reset - now + SleepMargin)
                       ELSE /\ Raise(SleepUntilReset(ret.reset, now))
                            /\ step' = Step("slept", f.self, f.verb, f.url, f.kw,
                                            inst[f.self].auth, f.retry, Len(Tokens(f.self)),
                                            SleepUntilReset(ret.reset, now), <<"sleep">>,
                                            ret.reset - now + SleepMargin)
                    /\ UNCHANGED <<lists, inst>>
            [] f.pc = "refresh" ->
                 \* self.tokens = [token]; new header; request(verb, url, 1)
                 /\ lists' = [lists EXCEPT !["refreshed"] = <<ret.token>>]
                 /\ inst' = [inst EXCEPT ![f.self].tokens = "refreshed",
                                         ![f.self].auth = Bearer(ret.token)]
                 /\ Call([f EXCEPT !.pc = "return"],
                         RequestFrame(f.self, f.verb, f.url, 1, RetryKwargs(f.kw)))
                 /\ step' = Plain("refreshed", f.self, <<"request">>)
            [] OTHER ->
                 \* return self.request(...): the response goes down through
                 \* every frame that is only waiting to return it
                 /\ stack' = Returned(stack)
                 /\ UNCHANGED <<ret, exc>>
                 /\ step' = NoStep
                 /\ UNCHANGED <<lists, inst>>
    /\ UNCHANGED <<last, trace>>
    /\ UNCHANGED aux

(***************************************************************************)
(* GitHubInstance.get_impersonation_token.                                 *)
(***************************************************************************)
\* (Fault: the guard against nested impersonation is missing.)
TokenEnterUnguarded ==
    /\ stack # << >> /\ Top.fn = "get_impersonation_token" /\ Top.pc = "enter" /\ Running
    /\ Call([Top EXCEPT !.pc = "created"],
            RequestFrame(Top.self, "post", IMPERSONATE(Top.user), 0,
                         Json(ScopesBody(ALL_SCOPES))))
    /\ step' = Plain("get_impersonation_token", Top.self, <<"create_impersonation_token">>)
    /\ UNCHANGED <<lists, inst, last, trace>>
    /\ UNCHANGED aux

\* The guard against nested impersonation, then create_impersonation_token.
TokenEnter ==
    /\ stack # << >> /\ Top.fn = "get_impersonation_token" /\ Top.pc = "enter" /\ Running
    /\ LET f == Top
       IN IF inst[f.self].impersonating # NoUser
          THEN /\ Raise("InvalidImpersonationError")
               /\ step' = Plain("get_impersonation_token", f.self, << >>)
          ELSE /\ Call([f EXCEPT !.pc = "created"],
                       RequestFrame(f.self, "post", IMPERSONATE(f.user), 0,
                                    Json(ScopesBody(ALL_SCOPES))))
               /\ step' = Plain("get_impersonation_token", f.self,
                                <<"create_impersonation_token">>)
    /\ UNCHANGED <<lists, inst, last, trace>>
    /\ UNCHANGED aux

\* The token came back: probe the rate-limit endpoint with it (a plain
\* requests.get, outside request()), raise what the probe reports.
TokenProbe ==
    /\ stack # << >> /\ Top.fn = "get_impersonation_token" /\ Top.pc = "created"
    /\ ret # NoValue /\ exc = "none"
    /\ \E answer \in ServerAnswers :
          /\ step' = Step("probe", Top.self, "get", RATE_LIMIT, NoKwargs, Bearer(ret.token),
                          0, Len(Tokens(Top.self)), handle_error(answer), << >>, 0)
          /\ IF handle_error(answer) = "none"
             THEN Return(TokenValue(ret.token))
             ELSE Raise(handle_error(answer))
    /\ UNCHANGED <<lists, inst, last, trace>>
    /\ UNCHANGED aux

\* (Fault: temporarily_unsuspend_user has its try around the unsuspend call
\* as well.)
HandlesFailedUnsuspend(f, e) ==
    /\ f.fn = "impersonate_user"
    /\ \/ f.pc = "mint1" /\ e = "GithubAccountSuspendedException"
       \/ f.pc \in {"unsuspend", "mint2", "yielded", "yielded_unsuspended"}

(***************************************************************************)
(* Exceptions leaving a frame that does not handle them.                   *)
(***************************************************************************)
\* (Fault: temporarily_unsuspend_user has no try/finally around its yield
\* for a failure of the second get_impersonation_token.)
HandlesWithoutFinally(f, e) ==
    /\ f.fn = "impersonate_user"
    /\ \/ f.pc = "mint1" /\ e = "GithubAccountSuspendedException"
       \/ f.pc \in {"yielded", "yielded_unsuspended"}

\* impersonate_user catches the suspension of the identity at its first
\* get_impersonation_token, runs the finally block of
\* temporarily_unsuspend_user for anything raised after the unsuspension, and
\* while it is suspended at its yield the caller's body is what runs.
Handles(f, e) ==
    /\ f.fn = "impersonate_user"
    /\ \/ f.pc = "mint1" /\ e = "GithubAccountSuspendedException"
       \/ f.pc = "mint2"
       \/ f.pc \in {"yielded", "yielded_unsuspended"}

\* The stack once e has left every frame that does not handle it.
RECURSIVE Unwound(_, _)
Unwound(s, e) ==
    IF s # << >> /\ ~Handles(s[Len(s)], e) THEN Unwound(Front(s), e) ELSE s

Propagate ==
    /\ stack # << >> /\ exc # "none"
    /\ ~Handles(Top, exc)
    /\ stack' = Unwound(stack, exc)
    /\ UNCHANGED <<ret, exc>>
    /\ IF \E k \in DOMAIN stack : k > Len(stack') /\ stack[k].fn = "impersonate_user"
       THEN /\ inst' = [inst EXCEPT !["child"] = NoInstance]
            /\ lists' = [lists EXCEPT !["impersonated"] = << >>]
       ELSE UNCHANGED <<lists, inst>>
    /\ step' = NoStep
    /\ UNCHANGED <<last, trace>>
    /\ UNCHANGED aux

(***************************************************************************)
(* The caller.                                                             *)
(***************************************************************************)
InScope == stack # << >> /\ Top.fn = "impersonate_user"
                         /\ Top.pc \in {"yielded", "yielded_unsuspended"}
\* The caller runs: at top level, or inside the body of a with block.
CallerRuns == Running /\ (stack = << >> \/ InScope)

Begin(op, i) ==
    /\ last' = [op |-> op, self |-> i, status |-> "running", exc |-> "none"]
    /\ step' = NoStep
    /\ trace' = IF stack = << >> THEN << >> ELSE trace

\* What callers pass to the verb wrappers: get(url) takes no options,
\* put, post and delete carry a JSON body (the gateway itself posts to mint
\* a token, puts to suspend and deletes to unsuspend).
VerbCalls ==
    { <<"get", NoKwargs>>,
      <<"put", Json([names |-> <<"topic">>])>> }

\* github.get(url), github.put(url, json=...), ...
CallVerb ==
    /\ CallerRuns
    /\ \E i \in Insts, vc \in VerbCalls :
          /\ inst[i].alive
          /\ Begin(vc[1], i)
          /\ stack' = Append(stack, RequestFrame(i, vc[1], REPO_BY_ID, 0, vc[2]))
    /\ UNCHANGED <<lists, inst, ret, exc>>
    /\ UNCHANGED aux

\* github.rotate_token()
CallRotateToken ==
    /\ CallerRuns
    /\ \E i \in Insts :
          /\ inst[i].alive
          /\ rotate_token(i)
          /\ last' = [op |-> "rotate_token", self |-> i, status |-> "returned",
                      exc |-> "none"]
          /\ step' = Plain("rotate_token", i, << >>)
          /\ trace' = IF stack = << >> THEN << >> ELSE trace
    /\ UNCHANGED <<stack, ret, exc>>
    /\ UNCHANGED aux

\* github.get_impersonation_token(username)
CallGetImpersonationToken ==
    /\ CallerRuns
    /\ \E i \in Insts, username \in Users :
          /\ inst[i].alive
          /\ Begin("get_impersonation_token", i)
          /\ stack' = Append(stack, TokenFrame(i, username))
    /\ UNCHANGED <<lists, inst, ret, exc>>
    /\ UNCHANGED aux

\* The operation the caller invoked has returned or raised.
OperationEnds ==
    /\ Delivered
    /\ stack = << >> \/ InScope
    /\ last' = [last EXCEPT !.status = IF exc = "none" THEN "returned" ELSE "raised",
                            !.exc = exc]
    /\ ret' = NoValue
    /\ exc' = "none"
    /\ step' = NoStep
    /\ UNCHANGED <<lists, inst, stack, trace>>
    /\ UNCHANGED aux

(***************************************************************************)
(* GitHubInstance.impersonate_user and temporarily_unsuspend_user.         *)
(***************************************************************************)
\* (Fault: the impersonating instance is built on the parent's list object.)
SharedTokens(f) == inst[f.self].tokens

\* GitHubInstance([token], impersonating=username): a new list object holding
\* the one token.
ImpersonatedTokens(f) == "impersonated"

Yield(f, token, pc) ==
    /\ lists' = [lists EXCEPT ![ImpersonatedTokens(f)] = <<token>>]
    /\ inst' = [inst EXCEPT !["child"] =
                   GitHubInstance(lists', ImpersonatedTokens(f), f.user)]
    /\ stack' = SetTop([f EXCEPT !.pc = pc])
    /\ ret' = NoValue
    /\ exc' = "none"
    /\ trace' = Append(trace, "yield")

\* The impersonating instance goes away with its scope.
ScopeOver ==
    /\ inst' = [inst EXCEPT !["child"] = NoInstance]
    /\ lists' = [lists EXCEPT !["impersonated"] = << >>]

\* finally: self.suspend_user(user, suspend_reason), with the exception that
\* is on its way out (if any) kept until the call is over.
Resuspend(f, pending) ==
    /\ Call([f EXCEPT !.pc = "suspend", !.pend = pending],
            RequestFrame(f.self, "put", SUSPEND_USER(f.user), 0,
                         Json(ReasonBody("Resuspending after temporary suspension."))))
    /\ trace' = Append(trace, "suspend_user")

\* with github.impersonate_user(username) as impersonated_gh: the first
\* get_impersonation_token(username).
CallImpersonateUser ==
    /\ Running /\ stack = << >>
    /\ \E i \in Insts, username \in Users :
          /\ inst[i].alive
          /\ last' = [op |-> "impersonate_user", self |-> i, status |-> "running",
                      exc |-> "none"]
          /\ step' = NoStep
          /\ stack' = <<[ScopeFrame(i, username) EXCEPT !.pc = "mint1"],
                        TokenFrame(i, username)>>
          /\ trace' = <<"get_impersonation_token">>
    /\ UNCHANGED <<lists, inst, ret, exc>>
    /\ UNCHANGED aux

\* impersonate_user continues after a call it made has returned or raised.
ScopeResume ==
    /\ stack # << >> /\ Top.fn = "impersonate_user" /\ Delivered
    /\ Top.pc \in {"mint1", "unsuspend", "mint2", "suspend"}
    /\ exc # "none" => Handles(Top, exc) \/ Top.pc = "suspend"
    /\ LET f == Top
       IN CASE f.pc = "mint1" /\ exc = "none" ->
                 \* else: impersonated_github = GitHubInstance(...); yield
                 Yield(f, ret.token, "yielded")
            [] f.pc = "mint1" /\ exc # "none" ->
                 \* except GithubAccountSuspendedException: enter
                 \* temporarily_unsuspend_user, whose first statement is
                 \* self.unsuspend_user(user, unsuspend_reason)
                 /\ Call([f EXCEPT !.pc = "unsuspend"],
                         RequestFrame(f.self, "delete", SUSPEND_USER(f.user), 0,
                                      Json(ReasonBody("Temporary unsuspension for impersonation"))))
                 /\ trace' = Append(trace, "unsuspend_user")
                 /\ UNCHANGED <<lists, inst>>
            [] f.pc = "unsuspend" ->
                 \* temporarily_unsuspend_user yields; second
                 \* get_impersonation_token(username)
                 /\ Call([f EXCEPT !.pc = "mint2"], TokenFrame(f.self, f.user))
                 /\ trace' = Append(trace, "get_impersonation_token")
                 /\ UNCHANGED <<lists, inst>>
            [] f.pc = "mint2" /\ exc = "none" ->
                 Yield(f, ret.token, "yielded_unsuspended")
            [] f.pc = "mint2" /\ exc # "none" ->
                 Resuspend(f, exc) /\ UNCHANGED <<lists, inst>>
            [] f.pc = "suspend" ->
                 \* the finally block is over: leave the scope
                 /\ IF exc # "none" THEN Raise(exc)
                    ELSE IF f.pend # "none" THEN Raise(f.pend)
                    ELSE Return(ScopeExitValue)
                 /\ ScopeOver
                 /\ UNCHANGED trace
    /\ step' = NoStep
    /\ UNCHANGED last
    /\ UNCHANGED aux

\* What the body of the with block can end with: normally, with an error of
\* its own, or with the error of the operation it called last.
BodyExits ==
    {"none", "ValueError"} \cup (IF last.status = "raised" THEN {last.exc} ELSE {})

\* The body of the with block ends.
ScopeExit ==
    /\ InScope /\ Running
    /\ \E e \in BodyExits :
          LET f == Top
          IN IF f.pc = "yielded"
             THEN /\ IF e = "none" THEN Return(ScopeExitValue) ELSE Raise(e)
                  /\ ScopeOver
                  /\ UNCHANGED trace
             ELSE Resuspend(f, e) /\ UNCHANGED <<lists, inst>>
    /\ last' = [op |-> "impersonate_user", self |-> Top.self, status |-> "running",
                exc |-> "none"]
    /\ step' = NoStep
    /\ UNCHANGED aux

(***************************************************************************)
(* GitHubInstance.get_paginated_response, get_paginated_search_response    *)
(* and get_next_url.                                                       *)
(***************************************************************************)
PagerFns == {"get_paginated_response", "get_paginated_search_response"}
\* The URLs callers paginate: get_organizations() with and without `since`,
\* and a repository search.
CollectionUrls(fn) ==
    IF fn = "get_paginated_response"
    THEN { Url(ORGANIZATIONS, ""), Url(ORGANIZATIONS, "?since=1") }
    ELSE { Url(SEARCH_REPOS, "?q=topic:public") }

\* (Fault: get_next_url returns the URL of the first link, whatever its rel.)
get_next_url_first_link(response) ==
    IF response.links = << >> THEN NoUrl ELSE response.links[1].url

\* GitHubInstance.get_next_url: the URL of the first link with rel="next",
\* None without a Link header or without such a link.
get_next_url(response) ==
    IF response.links = << >> THEN NoUrl
    ELSE IF \E k \in DOMAIN response.links : response.links[k].rel = "next"
    THEN response.links[CHOOSE k \in DOMAIN response.links :
                           /\ response.links[k].rel = "next"
                           /\ \A j \in 1..(k - 1) : response.links[j].rel # "next"].url
    ELSE NoUrl

\* response.raise_for_status()
raise_for_status(response) ==
    IF response.status >= 400 /\ response.status < 600 THEN "HTTPError" ELSE "none"

\* The array the loop iterates: response.json(), or response.json()["items"]
\* for the search variant.
Items(fn, response) == response.items

PagerFrame(fn, self, url) == Frame(fn, self, "fetch", "get", url, 0, NoKwargs, NoUser)

\* list(github.get_paginated_response(url)): the generator starts, builds the
\* first URL and fetches it with self.get(next_url).
CallPaginated ==
    /\ Running /\ stack = << >>
    /\ \E i \in Insts, fn \in PagerFns :
       \E url \in CollectionUrls(fn) :
          /\ inst[i].alive
          /\ last' = [op |-> fn, self |-> i, status |-> "running", exc |-> "none"]
          /\ stack' = <<PagerFrame(fn, i, PageSized(url)),
                        RequestFrame(i, "get", PageSized(url), 0, NoKwargs)>>
          /\ pager' = [NoPager EXCEPT !.fn = fn, !.self = i, !.url = url,
                                      !.fetched = <<PageSized(url)>>]
          /\ step' = Plain(fn, i, <<"get">>)
    /\ trace' = << >>
    /\ UNCHANGED <<lists, inst, ret, exc, rotated, classified, webhook, polling, sync, collab, accounts, scopes>>

\* self.get(next_url) returned: raise_for_status (logged, not raised), yield
\* every item, read the next URL and fetch it, or stop when there is none.
PagerResume ==
    /\ stack # << >> /\ Top.fn \in PagerFns
    /\ ret # NoValue /\ exc = "none"
    /\ LET f == Top
           next_url == get_next_url(ret)
       IN /\ pager' = [pager EXCEPT
                          !.served = Append(@, ret),
                          !.logged = IF raise_for_status(ret) = "none" THEN @
                                     ELSE Append(@, raise_for_status(ret)),
                          !.yielded = @ \o Items(f.fn, ret),
                          !.fetched = IF next_url = NoUrl THEN @ ELSE Append(@, next_url)]
          /\ IF next_url = NoUrl
             THEN /\ Return(StopIteration)
                  /\ step' = Plain(f.fn, f.self, << >>)
             ELSE /\ Call([f EXCEPT !.url = next_url],
                          RequestFrame(f.self, "get", next_url, 0, NoKwargs))
                  /\ step' = Plain(f.fn, f.self, <<"get">>)
    /\ UNCHANGED <<lists, inst, last, trace, rotated, classified, webhook, polling, sync, collab, accounts, scopes>>

NextPages ==
    \/ CallPaginated
    \/ PagerResume
    \/ RequestAttempt
    \/ RequestResume
    \/ Propagate
    \/ OperationEnds

SpecPages == Init /\ [][NextPages]_vars

(***************************************************************************)
(* Several instances built from the configured token list.                 *)
(***************************************************************************)
\* (Fault: the constructor tests `tokens is None` and an empty list passes.)
MissingTokensNone(tokens) == FALSE

\* if not tokens
MissingTokens(tokens) == tokens = << >>

\* How GitHubInstance(tokens) ends for the list object `tokens`: the
\* ValueError of the guard, or the IndexError of self.tokens[0].
InitError(tokens) ==
    IF MissingTokens(tokens) THEN "ValueError"
    ELSE IF tokens = << >> THEN "IndexError"
    ELSE "none"

\* self.tokens = tokens: the instance holds the list object it was given.
ConfiguredTokens(i) == "settings"

\* github = GitHubInstance(settings.GITHUB_ADMIN_TOKENS)
Construct ==
    /\ Running /\ stack = << >>
    /\ \E i \in {"parent", "peer"} :
          /\ ~inst[i].alive
          /\ IF InitError(lists["settings"]) = "none"
             THEN /\ UNCHANGED lists
                  /\ inst' = [inst EXCEPT ![i] =
                                 GitHubInstance(lists, ConfiguredTokens(i), NoUser)]
                  /\ last' = [op |-> "GitHubInstance", self |-> i, status |-> "returned",
                              exc |-> "none"]
             ELSE /\ UNCHANGED <<lists, inst>>
                  /\ last' = [op |-> "GitHubInstance", self |-> i, status |-> "raised",
                              exc |-> InitError(lists["settings"])]
          /\ step' = Plain("GitHubInstance", i, << >>)
    /\ UNCHANGED <<stack, ret, exc, trace>>
    /\ UNCHANGED aux

\* No instance yet; the configured list may be empty.
InitShared ==
    /\ Idle
    /\ \E n \in 0..MaxTokens : lists = [l \in ListRefs |->
                                  IF l = "settings" THEN SubSeq(AdminTokens, 1, n) ELSE << >>]
    /\ inst = [i \in Insts |-> NoInstance]
    /\ stack = << >>
    /\ ret = NoValue
    /\ exc = "none"
    /\ last = NoOperation
    /\ step = NoStep
    /\ trace = << >>

NextShared ==
    \/ Construct
    \/ CallVerb
    \/ CallRotateToken
    \/ RequestAttempt
    \/ RequestResume
    \/ Propagate
    \/ OperationEnds

SpecShared == InitShared /\ [][NextShared]_vars

(***************************************************************************)
(* A run of rotate_token calls on one instance.                            *)
(***************************************************************************)
\* The token lists a gateway can be built from.
TokenLists ==
    UNION { [1..n -> {AdminTokens[k] : k \in DOMAIN AdminTokens}] : n \in 1..MaxRotated }

\* github = GitHubInstance(tokens) for any non-empty list of tokens.
InitRotate ==
    /\ pager = NoPager /\ classified = NoClassification /\ webhook = NoWebhook
    /\ polling = NoPolling /\ sync = NoSync
    /\ collab = NoCollab /\ accounts = NoAccounts /\ scopes = NoScopes
    /\ \E tokens \in TokenLists :
          lists = [l \in ListRefs |-> IF l = "settings" THEN tokens ELSE << >>]
    /\ inst = [i \in Insts |->
                  IF i = "parent" THEN GitHubInstance(lists, "settings", NoUser)
                  ELSE NoInstance]
    /\ rotated = [origin |-> lists["settings"], auth |-> inst["parent"].auth, n |-> 0]
    /\ stack = << >>
    /\ ret = NoValue
    /\ exc = "none"
    /\ last = NoOperation
    /\ step = NoStep
    /\ trace = << >>

\* github.rotate_token(), up to as many times in a row as there are tokens.
Rotate ==
    /\ rotated.n < Len(rotated.origin)
    /\ rotate_token("parent")
    /\ rotated' = [rotated EXCEPT !.n = @ + 1]
    /\ last' = [op |-> "rotate_token", self |-> "parent", status |-> "returned",
                exc |-> "none"]
    /\ step' = Plain("rotate_token", "parent", << >>)
    /\ UNCHANGED <<stack, ret, exc, trace, pager, classified, webhook, polling, sync, collab, accounts, scopes>>

NextRotate == Rotate

SpecRotate == InitRotate /\ [][NextRotate]_vars

(***************************************************************************)
(* The error classifier on its own: handle_error(response).                *)
(***************************************************************************)
\* Status codes and JSON messages of the responses classified.
Statuses == {200, 400, 401, 403, 404, 422, 500}
Messages ==
    { NoMessage, SuspendedMessage, BlockedMessage, BadCredentialsMessage, RateLimitMessage,
      NotFoundMessage,
      Message(<<"You have exceeded a secondary ", "rate limit", ".">>),
      Message(<<"Sorry. Your account was suspended.", " Please contact your administrator.">>),
      Message(<<"Validation Failed">>),
      Message(<<"Server Error">>) }
Responses == { Answer(status, message) : status \in Statuses, message \in Messages }

\* No gateway instance exists and nothing runs.
NoGateway ==
    /\ lists = [l \in ListRefs |-> << >>]
    /\ inst = [i \in Insts |-> NoInstance]
    /\ stack = << >>
    /\ ret = NoValue
    /\ exc = "none"
    /\ last = NoOperation
    /\ step = NoStep
    /\ trace = << >>

InitClassify ==
    /\ NoGateway
    /\ pager = NoPager /\ rotated = NoRotation /\ webhook = NoWebhook
    /\ polling = NoPolling /\ sync = NoSync
    /\ collab = NoCollab /\ accounts = NoAccounts /\ scopes = NoScopes
    /\ \E answer \in Responses :
          classified = [answer |-> answer, raised |-> "none", done |-> FALSE]

\* GitHubInstance.handle_error(response)
Classify ==
    /\ ~classified.done
    /\ classified' = [classified EXCEPT !.raised = handle_error(classified.answer),
                                        !.done = TRUE]
    /\ UNCHANGED <<lists, inst, stack, ret, exc, last, step, trace>>
    /\ UNCHANGED <<pager, rotated, webhook, polling, sync, collab, accounts, scopes>>

NextClassify == Classify

SpecClassify == InitClassify /\ [][NextClassify]_vars

(***************************************************************************)
(* WebhookDispatcher.register, secure_github_request, dispatch and the     *)
(* view dispatch_webhook.                                                  *)
(***************************************************************************)
\* (Fault: the digest is computed but never compared.)
secure_github_request_unchecked(signature, body) ==
    IF ~signature.present THEN "InvalidSignature"
    ELSE IF Len(signature.parts) # 2 THEN "ValueError"
    ELSE IF signature.parts[1] # "sha1" THEN "OperationNotSupportedException"
    ELSE "none"

\* WebhookDispatcher.secure_github_request: the exception it raises, "none"
\* when it returns (the unpacking of split("=") needs exactly two parts).
secure_github_request(signature, body) ==
    IF ~signature.present THEN "InvalidSignature"
    ELSE IF Len(signature.parts) # 2 THEN "ValueError"
    ELSE IF signature.parts[1] # "sha1" THEN "OperationNotSupportedException"
    ELSE IF HMAC(WebhookKey, body) # signature.parts[2] THEN "InvalidSignature"
    ELSE "none"

\* (Fault: register does not test callable(event_registry).)
register_error_never(registry, event, action) == "none"

\* (Fault: dispatch looks the action up as it was sent, without lower().)
ActionKeyAsSent(action) == action

\* action.lower(): the key dispatch looks up in the event's action map.
ActionKey(action) == lower(action)

\* @WebhookDispatcher.register(event, action) applied to a handler: the
\* exception it raises.
register_error(registry, event, action) ==
    IF action # NoName /\ registry[lower(event)].kind = "handler"
    THEN "ValueError"
    ELSE "none"
\* The registry after it.
register(registry, event, action, handler) ==
    IF action # NoName
    THEN IF registry[lower(event)].kind = "handler"
         THEN registry
         ELSE [registry EXCEPT ![lower(event)] =
                  ActionHandlers([@.actions EXCEPT ![lower(action)] = handler])]
    ELSE [registry EXCEPT ![event] = EventHandler(handler)]

\* A module registers a handler.
Register ==
    /\ webhook.state \in {"Idle", "Responded"}
    /\ \E event \in EventNames, action \in ActionNames \cup {NoName}, handler \in Handlers :
          webhook' = [webhook EXCEPT
                         !.registry = register(@, event, action, handler),
                         !.call = Registration(event, action, handler),
                         !.registered = IF register_error(webhook.registry, event, action) = "none"
                                        THEN handler
                                        ELSE register_error(webhook.registry, event, action)]
    /\ UNCHANGED <<lists, inst, stack, ret, exc, last, step, trace>>
    /\ UNCHANGED <<pager, rotated, classified, polling, sync, collab, accounts, scopes>>

\* dispatch_webhook(request) is called with a request: event, action,
\* signature and body are read from it.
Receive ==
    /\ webhook.state \in {"Idle", "Responded"}
    /\ \E event \in EventNames, action \in ActionNames \cup {NoName},
          signature \in Signatures, body \in Bodies :
          webhook' = [webhook EXCEPT
                         !.state = "Unverified",
                         !.request = WebhookRequest(event, action, signature, body),
                         !.invoked = << >>, !.raised = "none", !.result = "none",
                         !.response = "none"]
    /\ UNCHANGED <<lists, inst, stack, ret, exc, last, step, trace>>
    /\ UNCHANGED <<pager, rotated, classified, polling, sync, collab, accounts, scopes>>

\* dispatch: self.secure_github_request(signature, body)
Verify ==
    /\ webhook.state = "Unverified"
    /\ LET error == secure_github_request(webhook.request.signature, webhook.request.body)
       IN webhook' = [webhook EXCEPT
                         !.state = IF error = "none" THEN "Verified" ELSE "Rejected",
                         !.raised = error]
    /\ UNCHANGED <<lists, inst, stack, ret, exc, last, step, trace>>
    /\ UNCHANGED <<pager, rotated, classified, polling, sync, collab, accounts, scopes>>

\* dispatch after the signature check: look the event up, then the action,
\* and call the handler found.
Route ==
    /\ webhook.state = "Verified"
    /\ LET event_handler == webhook.registry[lower(webhook.request.event)]
           action == webhook.request.action
       IN IF event_handler.kind = "absent"
          THEN webhook' = [webhook EXCEPT !.state = "Unhandled",
                                          !.raised = "UnhandledActionException"]
          ELSE IF event_handler.kind = "handler"
          THEN webhook' = [webhook EXCEPT !.state = "Dispatched",
                                          !.invoked = Append(@, event_handler.handler),
                                          !.result = event_handler.handler]
          ELSE IF action = NoName
          THEN webhook' = [webhook EXCEPT !.state = "Unhandled",
                                          !.raised = "UnhandledActionException"]
          ELSE IF event_handler.actions[ActionKey(action)] = "none"
          THEN webhook' = [webhook EXCEPT !.state = "Unhandled",
                                          !.raised = "UnhandledActionException"]
          ELSE webhook' = [webhook EXCEPT
                              !.state = "Dispatched",
                              !.invoked = Append(@, event_handler.actions[ActionKey(action)]),
                              !.result = event_handler.actions[ActionKey(action)]]
    /\ UNCHANGED <<lists, inst, stack, ret, exc, last, step, trace>>
    /\ UNCHANGED <<pager, rotated, classified, polling, sync, collab, accounts, scopes>>

\* (Fault: the except clauses of dispatch_webhook answer 403 for an
\* unsupported operation and 501 for an invalid signature.)
HttpResponseSwapped(raised, result) ==
    CASE raised = "none" -> result
      [] raised = "UnhandledEventException" -> "204"
      [] raised = "UnhandledActionException" -> "204"
      [] raised = "OperationNotSupportedException" -> "403"
      [] raised = "InvalidSignature" -> "501"
      [] OTHER -> "500"

\* dispatch_webhook: the HTTP response for what dispatch returned or raised
\* (an exception it does not catch is the framework's 500).
HttpResponse(raised, result) ==
    CASE raised = "none" -> result
      [] raised = "UnhandledEventException" -> "204"
      [] raised = "UnhandledActionException" -> "204"
      [] raised = "OperationNotSupportedException" -> "501"
      [] raised = "InvalidSignature" -> "403"
      [] OTHER -> "500"

Respond ==
    /\ webhook.state \in {"Rejected", "Dispatched", "Unhandled"}
    /\ webhook' = [webhook EXCEPT
                      !.state = "Responded",
                      !.response = HttpResponse(webhook.raised, webhook.result)]
    /\ UNCHANGED <<lists, inst, stack, ret, exc, last, step, trace>>
    /\ UNCHANGED <<pager, rotated, classified, polling, sync, collab, accounts, scopes>>

InitWebhook ==
    /\ NoGateway
    /\ Idle

\* Nothing of the gateway, the paginator, the classifier or the dispatcher runs.
Quiet ==
    /\ NoGateway
    /\ pager = NoPager /\ rotated = NoRotation /\ classified = NoClassification
    /\ webhook = NoWebhook

NextWebhook ==
    \/ Register
    \/ Receive
    \/ Verify
    \/ Route
    \/ Respond

SpecWebhook == InitWebhook /\ [][NextWebhook]_vars

(***************************************************************************)
(* Repo polling: repo_polling (tasks.py), get_and_update_repo and          *)
(* get_polling_repos (repo_polling.py).                                    *)
(***************************************************************************)
\* Fault: every repo is a reminder candidate, whenever it was checked.
is_reminder_candidate_always(last_polling_check, current_time) == TRUE

\* Repo.is_reminder_candidate: never checked, or checked longer ago than the
\* reminder period.
is_reminder_candidate(last_polling_check, current_time) ==
    IF last_polling_check = NoTime
    THEN TRUE
    ELSE last_polling_check + ReminderPeriod < current_time

Floor(n, k) == n \div k
\* math.ceil(n / k)
Ceil(n, k) == (n + k - 1) \div k

\* get_polling_repos(): the rows ordered by last_polling_check, nulls first,
\* cut to one polling period's share; rows with equal timestamps come in
\* any order.
get_polling_repos(db) ==
    LET rows == {r \in Repos : db[r].stored}
        repos_per_polling_period == Ceil(Cardinality(rows), PollingPeriods)
        checked(r) == db[r].repo.last_polling_check
    IN  {q \in [1..repos_per_polling_period -> rows] :
            /\ \A i, j \in DOMAIN q : i < j => (q[i] # q[j] /\ checked(q[i]) <= checked(q[j]))
            /\ \A r \in rows \ {q[i] : i \in DOMAIN q} :
                  \A i \in DOMAIN q : checked(q[i]) <= checked(r)}

\* get_org_owner(org): the first listed admin other than the global owner,
\* else the global owner's User row, which may not exist.
get_org_owner(admins, known) ==
    LET others == SelectSeq(admins, LAMBDA username : username # GITHUB_OWNER_USER)
    IN  IF others # << >>
        THEN [user |-> others[1], raised |-> "none"]
        ELSE IF known
             THEN [user |-> GITHUB_OWNER_USER, raised |-> "none"]
             ELSE [user |-> NoOwner, raised |-> "GithubOwnerDoesNotExistError"]

\* What one guarded fetch leaves: the object, whether it was saved, and the
\* value returned or the exception raised.
Handled(local_repo, saved, returned, raised) ==
    [local_repo |-> local_repo, saved |-> saved, returned |-> returned, raised |-> raised]

\* Fault: a blocked repository is not handled.
get_github_repo_unhandled(local_repo, answer) ==
    IF answer.kind = "repo"
    THEN Handled(local_repo, FALSE, answer, "none")
    ELSE Handled(local_repo, FALSE, None, answer.kind)

\* _get_github_repo_and_handle_error(local_repo), GitHub answering `answer`.
get_github_repo_and_handle_error(local_repo, answer) ==
    IF answer.kind = RepositoryBlocked
    THEN Handled([local_repo EXCEPT !.disabled = TRUE], TRUE, None, "none")
    ELSE IF answer.kind = "repo"
         THEN Handled(local_repo, FALSE, answer, "none")
         ELSE Handled(local_repo, FALSE, None, answer.kind)

\* The end of get_and_update_repo, lines 82-96.
update_repo(before, handled, row, fetched) ==
    IF handled.returned = None
    THEN Outcome(before, handled.local_repo, row, fetched, None, "none")
    ELSE LET local_repo == [handled.local_repo EXCEPT !.disabled = handled.returned.disabled]
         IN  Outcome(before, local_repo, save(local_repo), fetched, handled.returned, "none")

\* get_and_update_repo(local_repo, last_polling_check), where GitHub answers
\* the fetches with `first` and `second` and lists `admins` for the org.
get_and_update_repo(before, last_polling_check, first, admins, known, second) ==
    LET stamped == [before EXCEPT !.last_polling_check = last_polling_check]
        one == get_github_repo_and_handle_error(stamped, first)
        row == IF one.saved THEN save(one.local_repo) ELSE save(stamped)
    IN  IF one.raised = NotFound
        THEN IF ~stamped.org
             THEN Outcome(before, stamped, delete(stamped), <<first>>, None, "none")
             ELSE LET owner == get_org_owner(admins, known)
                      local_repo == [stamped EXCEPT !.owner = owner.user]
                      two == get_github_repo_and_handle_error(local_repo, second)
                      again == <<first, second>>
                  IN  IF owner.raised # "none"
                      THEN Outcome(before, stamped, row, <<first>>, None, owner.raised)
                      ELSE IF two.raised = NotFound
                           THEN Outcome(before, local_repo, delete(local_repo), again, None,
                                        "none")
                           ELSE IF two.raised # "none"
                                THEN Outcome(before, local_repo, row, again, None, two.raised)
                                ELSE update_repo(before, two,
                                                 IF two.saved THEN save(two.local_repo)
                                                 ELSE row, again)
        ELSE IF one.raised # "none"
             THEN Outcome(before, stamped, row, <<first>>, None, one.raised)
             ELSE update_repo(before, one, row, <<first>>)

\* What GitHub and the User table are asked after the first fetch: the
\* admins of the org, the global owner's row and the second fetch, which
\* only a repo with an org that was not found comes to.
LaterAnswers(local_repo, first) ==
    IF first.kind = NotFound /\ local_repo.org
    THEN OrgAdmins \X BOOLEAN \X get_github_repo
    ELSE {<<<< >>, FALSE, None>>}

\* The loop of repo_polling goes to its next repo, or ends.
Continue(p) ==
    IF p.pos < Len(p.queue)
    THEN [p EXCEPT !.pos = p.pos + 1, !.pc = "next"]
    ELSE [p EXCEPT !.pc = "done"]

\* repo_polling(), lines 128-129: the time is read and the repos are queried.
\* Every run reads a later time than the one before.
Poll ==
    /\ polling.pc = "idle"
    /\ \E queue \in get_polling_repos(polling.db) :
          LET started == [polling EXCEPT !.now = PollingTime + polling.run, !.run = @ + 1]
          IN  polling' = IF queue = << >>
                         THEN [started EXCEPT !.pc = "done"]
                         ELSE [started EXCEPT !.queue = queue, !.pos = 1, !.pc = "next"]
    /\ UNCHANGED <<lists, inst, stack, ret, exc, last, step, trace>>
    /\ UNCHANGED <<pager, rotated, classified, webhook, sync, collab, accounts, scopes>>

\* Lines 130-134: needs_reminder = local_repo.is_reminder_candidate
ReadCandidate ==
    /\ polling.pc = "next"
    /\ LET repo == polling.queue[polling.pos]
           local_repo == polling.db[repo].repo
           needs_reminder == is_reminder_candidate(local_repo.last_polling_check, polling.now)
       IN  polling' = [polling EXCEPT
                          !.local_repo = local_repo,
                          !.needs_reminder = needs_reminder,
                          !.log = Append(@, Event("is_reminder_candidate", repo, needs_reminder)),
                          !.pc = "update"]
    /\ UNCHANGED <<lists, inst, stack, ret, exc, last, step, trace>>
    /\ UNCHANGED <<pager, rotated, classified, webhook, sync, collab, accounts, scopes>>

\* Line 135: github_repo = GetAndUpdateRepo.get_and_update_repo(local_repo, now);
\* an exception it raises ends the task.
GetAndUpdateRepo ==
    /\ polling.pc = "update"
    /\ \E first \in get_github_repo : \E later \in LaterAnswers(polling.local_repo, first) :
          LET repo == polling.queue[polling.pos]
              call == get_and_update_repo(polling.local_repo, polling.now, first, later[1],
                                          later[2], later[3])
              updated == [polling EXCEPT !.call = call, !.local_repo = call.local_repo,
                                         !.db[repo] = call.row,
                                         !.polled[repo] = polling.run]
          IN  polling' = IF call.raised # "none"
                         THEN [updated EXCEPT
                                  !.log = Append(@, Event(call.raised, repo, FALSE)),
                                  !.pc = "failed"]
                         ELSE [updated EXCEPT
                                  !.github_repo = call.returned,
                                  !.log = Append(@, Event("get_and_update_repo", repo,
                                                          call.returned # None)),
                                  !.pc = "decide"]
    /\ UNCHANGED <<lists, inst, stack, ret, exc, last, step, trace>>
    /\ UNCHANGED <<pager, rotated, classified, webhook, sync, collab, accounts, scopes>>

\* Lines 136-140: no repo came back: on to the next repo; a candidate is
\* reminded.
RemindRepo ==
    /\ polling.pc = "decide"
    /\ LET repo == polling.queue[polling.pos]
       IN  polling' =
              IF polling.github_repo = None
              THEN Continue(polling)
              ELSE IF polling.needs_reminder
                   THEN Continue([polling EXCEPT
                                     !.log = Append(@, Event("remind_repo", repo, TRUE))])
                   ELSE Continue(polling)
    /\ UNCHANGED <<lists, inst, stack, ret, exc, last, step, trace>>
    /\ UNCHANGED <<pager, rotated, classified, webhook, sync, collab, accounts, scopes>>

\* The rows a polling task finds: with or without an org, checked at any of
\* the times, enabled, owned by their first owner.
InitPolling ==
    /\ Quiet
    /\ sync = NoSync
    /\ collab = NoCollab /\ accounts = NoAccounts /\ scopes = NoScopes
    /\ \E repos \in [Repos -> {LocalRepo(org, checked, FALSE, RepoOwner) :
                                  org \in BOOLEAN, checked \in CheckTimes}] :
          polling = [NoPolling EXCEPT !.db = [r \in Repos |-> save(repos[r])], !.pc = "idle"]

NextPolling ==
    \/ Poll
    \/ ReadCandidate
    \/ GetAndUpdateRepo
    \/ RemindRepo

SpecPolling == InitPolling /\ [][NextPolling]_vars

\* The beat schedule starts the next run of repo_polling once the run
\* before it is over, with or without an exception.
Reschedule ==
    /\ polling.pc \in {"done", "failed"}
    /\ polling.run < MaxRuns
    /\ polling' = [NoPolling EXCEPT
                     !.db = polling.db,
                     !.pc = "idle",
                     !.run = polling.run,
                     !.streak = IF polling.pc = "done" THEN polling.streak + 1 ELSE 0,
                     !.polled = polling.polled]
    /\ UNCHANGED <<lists, inst, stack, ret, exc, last, step, trace>>
    /\ UNCHANGED <<pager, rotated, classified, webhook, sync, collab, accounts, scopes>>

\* The rows successive runs start from: checked at any of the times, the
\* first one with or without an org, the others user repos.
InitRounds ==
    /\ Quiet
    /\ sync = NoSync
    /\ collab = NoCollab /\ accounts = NoAccounts /\ scopes = NoScopes
    /\ \E checked \in [Repos -> CheckTimes], org \in BOOLEAN :
          polling = [NoPolling EXCEPT
                        !.db = [r \in Repos |->
                                   save(LocalRepo(org /\ r = 1, checked[r], FALSE,
                                                  RepoOwner))],
                        !.pc = "idle"]

NextRounds ==
    \/ Poll
    \/ ReadCandidate
    \/ GetAndUpdateRepo
    \/ RemindRepo
    \/ Reschedule

SpecRounds == InitRounds /\ [][NextRounds]_vars

(***************************************************************************)
(* Collaborator sync: sync_repo_collaborators (tasks.py) and               *)
(* run_sync_repo_collaborators (sync_repo_collaborators.py), any number    *)
(* of tasks for the same repo running at once.                             *)
(***************************************************************************)
\* Fault: the lock is granted whoever holds it.
ILockGranted == TRUE

\* ILock(str(github_id) + "-sync-repo-lock") can be entered.
ILockFree == sync.lock = NoTask

\* timezone.now() / datetime.now(tz=pytz.UTC): every reading is later than
\* the readings before it.
timezone_now == sync.clock + 1

\* sync_repo_collaborators(local_repo): the task is queued with the current
\* time as `sent`.
SendSync(t) ==
    /\ sync.tasks[t].pc = "none"
    /\ sync' = [sync EXCEPT !.clock = timezone_now,
                            !.tasks[t] = SyncTask("sent", strftime(timezone_now), NoTime, NoTime)]
    /\ UNCHANGED <<lists, inst, stack, ret, exc, last, step, trace>>
    /\ UNCHANGED <<pager, rotated, classified, webhook, polling, collab, accounts, scopes>>

\* Line 61: with ILock(...)
AcquireLock(t) ==
    /\ sync.tasks[t].pc = "sent"
    /\ ILockFree
    /\ sync' = [sync EXCEPT !.lock = t,
                            !.tasks[t].locked_at = sync.clock,
                            !.tasks[t].pc = "locked"]
    /\ UNCHANGED <<lists, inst, stack, ret, exc, last, step, trace>>
    /\ UNCHANGED <<pager, rotated, classified, webhook, polling, collab, accounts, scopes>>

\* Lines 62-66: local_repo = Repo.objects.get(github_id=github_id); without
\* a row the task returns, which leaves the lock.
GetRepo(t) ==
    /\ sync.tasks[t].pc = "locked"
    /\ sync' = IF sync.row.stored
               THEN [sync EXCEPT
                        !.tasks[t].collaborators_synced = sync.row.collaborators_synced,
                        !.tasks[t].pc = "compare"]
               ELSE [sync EXCEPT !.lock = NoTask, !.tasks[t].pc = "missing"]
    /\ UNCHANGED <<lists, inst, stack, ret, exc, last, step, trace>>
    /\ UNCHANGED <<pager, rotated, classified, webhook, polling, collab, accounts, scopes>>

\* Lines 68-73: a request sent before the last sync is skipped.
CompareSent(t) ==
    /\ sync.tasks[t].pc = "compare"
    /\ sync' = IF /\ sync.tasks[t].collaborators_synced # NoTime
                  /\ strptime(sync.tasks[t].sent) < sync.tasks[t].collaborators_synced
               THEN [sync EXCEPT !.lock = NoTask, !.tasks[t].pc = "skipped"]
               ELSE [sync EXCEPT !.tasks[t].pc = "update"]
    /\ UNCHANGED <<lists, inst, stack, ret, exc, last, step, trace>>
    /\ UNCHANGED <<pager, rotated, classified, webhook, polling, collab, accounts, scopes>>

\* Lines 75-76 and the end of the with block: the sync time is stamped and
\* saved, and the lock is left.
StampSynced(t) ==
    /\ sync.tasks[t].pc = "update"
    /\ sync' = [sync EXCEPT !.clock = timezone_now,
                            !.row = SyncRow(TRUE, timezone_now),
                            !.lock = NoTask,
                            !.tasks[t].collaborators_synced = timezone_now,
                            !.tasks[t].pc = "syncing"]
    /\ UNCHANGED <<lists, inst, stack, ret, exc, last, step, trace>>
    /\ UNCHANGED <<pager, rotated, classified, webhook, polling, collab, accounts, scopes>>

\* Lines 78-81 and _get_repo_collaborators, lines 29-35: outside the lock
\* the sync time is stamped and saved again, then the collaborators are
\* fetched.
GetRepoCollaborators(t) ==
    /\ sync.tasks[t].pc = "syncing"
    /\ sync' = [sync EXCEPT !.clock = timezone_now,
                            !.row = SyncRow(TRUE, timezone_now),
                            !.tasks[t].collaborators_synced = timezone_now,
                            !.tasks[t].pc = "fetched"]
    /\ UNCHANGED <<lists, inst, stack, ret, exc, last, step, trace>>
    /\ UNCHANGED <<pager, rotated, classified, webhook, polling, collab, accounts, scopes>>

\* The repo has a row or not, never synced or synced before any request.
InitSync ==
    /\ Quiet
    /\ polling = NoPolling
    /\ collab = NoCollab /\ accounts = NoAccounts /\ scopes = NoScopes
    /\ \E stored \in BOOLEAN, collaborators_synced \in {NoTime, 1} :
          sync = [NoSync EXCEPT !.clock = 1,
                                !.row = SyncRow(stored, IF stored THEN collaborators_synced
                                                        ELSE NoTime)]

NextSync ==
    \E t \in SyncTasks :
       \/ SendSync(t)
       \/ AcquireLock(t)
       \/ GetRepo(t)
       \/ CompareSent(t)
       \/ StampSynced(t)
       \/ GetRepoCollaborators(t)

SpecSync == InitSync /\ [][NextSync]_vars

\* ---------------------------------------------------------------------
\* run_sync_repo_collaborators after the lock: the fetch of the
\* collaborators and the write of the local collaborator set, for tasks
\* of one repo that run at once.
\* ---------------------------------------------------------------------

MayRetryNever(retry) == FALSE
\* if retry < settings.MAX_SYNC_RETRY
MayRetry(retry) == retry < MAX_SYNC_RETRY

HasOtherOwnerAlways(org) == TRUE
\* if not local_repo.org: raise
HasOtherOwner(org) == org

\* User.objects.filter(github_id__in=[...]): the local rows among the users.
filter(users) == users \cap LocalUsers

\* bool(collaborators): None and the empty list are falsy.
Truthy(collaborators) == collaborators.kind = "list" /\ collaborators.users # {}

\* What one fetch attempt of _get_repo_collaborators leaves of the task,
\* with the except clause of run_sync_repo_collaborators around the call.
AfterAttempt(t, answer, org) ==
    LET tried == [t EXCEPT !.attempts = @ + 1] IN
    CASE answer.kind = "list" ->
            [tried EXCEPT !.pc = "fetched", !.collaborators = answer]
      [] answer.kind = RepositoryBlocked ->
            [tried EXCEPT !.pc = "fetched", !.collaborators = NoCollaborators]
      [] answer.kind = AccountSuspended ->
            IF MayRetry(t.retry)
            THEN [tried EXCEPT !.retry = @ + 1]
            ELSE [tried EXCEPT !.pc = "fetched", !.collaborators = NoCollaborators]
      [] OTHER ->
            IF t.call = 1 /\ HasOtherOwner(org)
            THEN Writer("syncing", OrgOwner, 2, 0, 0, NoFetch)
            ELSE [tried EXCEPT !.pc = "logged"]

\* The task reads the row of the repo and leaves the lock.
ReadLocalRepo(w) ==
    /\ collab.tasks[w].pc = "none"
    /\ collab' = [collab EXCEPT
                    !.tasks[w] = Writer("syncing", collab.owner, 1, 0, 0, NoFetch)]
    /\ UNCHANGED <<lists, inst, stack, ret, exc, last, step, trace>>
    /\ UNCHANGED <<pager, rotated, classified, webhook, polling, sync, accounts, scopes>>

\* One fetch attempt: the stamp and save() of the task's local_repo object,
\* the fetch as the owner, and what the answer leads to.  save() writes
\* every field of the object, the owner included.
FetchCollaborators(w) ==
    /\ collab.tasks[w].pc = "syncing"
    /\ \E answer \in get_repo_collaborators :
          LET after == AfterAttempt(collab.tasks[w], answer, collab.org) IN
          collab' = [collab EXCEPT !.owner = after.owner, !.latest = answer,
                                   !.tasks[w] = after]
    /\ UNCHANGED <<lists, inst, stack, ret, exc, last, step, trace>>
    /\ UNCHANGED <<pager, rotated, classified, webhook, polling, sync, accounts, scopes>>

\* if not collaborators: return; else self.collaborators.clear()
ClearCollaborators(w) ==
    /\ collab.tasks[w].pc = "fetched"
    /\ collab' = IF Truthy(collab.tasks[w].collaborators)
                 THEN [collab EXCEPT !.collaborators = {}, !.tasks[w].pc = "cleared"]
                 ELSE [collab EXCEPT !.tasks[w].pc = "no access"]
    /\ UNCHANGED <<lists, inst, stack, ret, exc, last, step, trace>>
    /\ UNCHANGED <<pager, rotated, classified, webhook, polling, sync, accounts, scopes>>

\* self.collaborators.add(*local_users); self.save()
AddCollaborators(w) ==
    /\ collab.tasks[w].pc = "cleared"
    /\ collab' = [collab EXCEPT
                    !.collaborators = @ \cup filter(collab.tasks[w].collaborators.users),
                    !.owner = collab.tasks[w].owner,
                    !.tasks[w].pc = "finished"]
    /\ UNCHANGED <<lists, inst, stack, ret, exc, last, step, trace>>
    /\ UNCHANGED <<pager, rotated, classified, webhook, polling, sync, accounts, scopes>>

InitCollab ==
    /\ Quiet
    /\ polling = NoPolling /\ sync = NoSync
    /\ accounts = NoAccounts /\ scopes = NoScopes
    /\ \E org \in BOOLEAN, collaborators \in {{}, {"u1"}} :
          collab = [NoCollab EXCEPT !.org = org, !.owner = RepoOwner,
                                    !.collaborators = collaborators]

NextCollab ==
    \/ \E w \in Writers : ReadLocalRepo(w)
    \/ \E w \in Writers : FetchCollaborators(w)
    \/ \E w \in Writers : ClearCollaborators(w)
    \/ \E w \in Writers : AddCollaborators(w)

SpecCollab == InitCollab /\ [][NextCollab]_vars

\* ---------------------------------------------------------------------
\* User.from_github_user, called at once by handlers of events about one
\* GitHub user.
\* ---------------------------------------------------------------------

\* The primary keys of the rows that match.
ByGithubId(rows, github_id) == {pk \in DOMAIN rows : rows[pk].github_id = github_id}
ByUsername(rows, username) == {pk \in DOMAIN rows : rows[pk].username = username}

ConflictsOnUsername(rows, pk, row) == ByUsername(rows, row.username) \ {pk} # {}
\* unique=True on username and on github_id: writing `row` at `pk` breaks a
\* constraint when another row has its username or its github_id.
Conflicts(rows, pk, row) ==
    \/ ByUsername(rows, row.username) \ {pk} # {}
    \/ ByGithubId(rows, row.github_id) \ {pk} # {}

\* Rows locked by a select_for_update whose transaction is still open.
Locked(c) ==
    {accounts.calls[d].pk : d \in {e \in Callers : e # c /\ accounts.calls[e].pc = "update"}}

\* cls.objects.get(github_id=github_user["id"]), lines 44-46.
GetByGithubId(c) ==
    /\ accounts.calls[c].pc = "none"
    /\ \E login \in Logins :
          LET found == ByGithubId(accounts.rows, GitHubId) IN
          accounts' = [accounts EXCEPT !.calls[c] =
                          IF found # {}
                          THEN UserCall("returned", login, CHOOSE pk \in found : TRUE, FALSE)
                          ELSE UserCall("lookup", login, NoPk, FALSE)]
    /\ UNCHANGED <<lists, inst, stack, ret, exc, last, step, trace>>
    /\ UNCHANGED <<pager, rotated, classified, webhook, polling, sync, collab, scopes>>

\* update_or_create: select_for_update().get(username=...), at first and
\* again after an insert that failed; it waits for a row another
\* transaction holds.  Without a row the first one goes on to insert, the
\* second one lets the IntegrityError of the insert out.
SelectForUpdate(c) ==
    LET call == accounts.calls[c]
        found == ByUsername(accounts.rows, call.login)
    IN  /\ call.pc \in {"lookup", "relookup"}
        /\ found \cap Locked(c) = {}
        /\ accounts' = [accounts EXCEPT !.calls[c] =
                           IF found # {}
                           THEN [call EXCEPT !.pc = "update", !.pk = CHOOSE pk \in found : TRUE]
                           ELSE IF call.pc = "lookup"
                                THEN [call EXCEPT !.pc = "create"]
                                ELSE [call EXCEPT !.pc = "reget", !.integrity_error = TRUE]]
        /\ UNCHANGED <<lists, inst, stack, ret, exc, last, step, trace>>
        /\ UNCHANGED <<pager, rotated, classified, webhook, polling, sync, collab, scopes>>

\* update_or_create: the insert of (login, id).
Create(c) ==
    LET call == accounts.calls[c]
        row == UserRow(call.login, GitHubId)
    IN  /\ call.pc = "create"
        /\ accounts' = IF Conflicts(accounts.rows, NoPk, row)
                       THEN [accounts EXCEPT !.calls[c].pc = "relookup"]
                       ELSE [accounts EXCEPT
                                !.rows = Append(@, row),
                                !.calls[c] = [call EXCEPT !.pc = "returned",
                                                          !.pk = Len(accounts.rows) + 1]]
        /\ UNCHANGED <<lists, inst, stack, ret, exc, last, step, trace>>
        /\ UNCHANGED <<pager, rotated, classified, webhook, polling, sync, collab, scopes>>

\* update_or_create: the defaults are set on the row found and it is saved;
\* the transaction ends.
Update(c) ==
    LET call == accounts.calls[c]
        row == [accounts.rows[call.pk] EXCEPT !.github_id = GitHubId]
    IN  /\ call.pc = "update"
        /\ accounts' = IF Conflicts(accounts.rows, call.pk, row)
                       THEN [accounts EXCEPT
                                !.calls[c] = [call EXCEPT !.pc = "reget", !.pk = NoPk,
                                                          !.integrity_error = TRUE]]
                       ELSE [accounts EXCEPT !.rows[call.pk] = row,
                                             !.calls[c].pc = "returned"]
        /\ UNCHANGED <<lists, inst, stack, ret, exc, last, step, trace>>
        /\ UNCHANGED <<pager, rotated, classified, webhook, polling, sync, collab, scopes>>

\* except IntegrityError: user = cls.objects.get(github_id=github_user["id"])
GetAfterIntegrityError(c) ==
    LET call == accounts.calls[c]
        found == ByGithubId(accounts.rows, GitHubId)
    IN  /\ call.pc = "reget"
        /\ accounts' = [accounts EXCEPT !.calls[c] =
                           IF found # {}
                           THEN [call EXCEPT !.pc = "returned", !.pk = CHOOSE pk \in found : TRUE]
                           ELSE [call EXCEPT !.pc = "DoesNotExist"]]
        /\ UNCHANGED <<lists, inst, stack, ret, exc, last, step, trace>>
        /\ UNCHANGED <<pager, rotated, classified, webhook, polling, sync, collab, scopes>>

\* The table before the calls: empty, or one row: the user's own under
\* either login, or an older account's under either login.
InitAccounts ==
    /\ Quiet
    /\ polling = NoPolling /\ sync = NoSync
    /\ collab = NoCollab /\ scopes = NoScopes
    /\ \E rows \in {<< >>} \cup {<<UserRow(username, github_id)>> :
                                    username \in Logins, github_id \in {GitHubId, OldId}} :
          accounts = [NoAccounts EXCEPT !.rows = rows]

NextAccounts ==
    \/ \E c \in Callers : GetByGithubId(c)
    \/ \E c \in Callers : SelectForUpdate(c)
    \/ \E c \in Callers : Create(c)
    \/ \E c \in Callers : Update(c)
    \/ \E c \in Callers : GetAfterIntegrityError(c)

SpecAccounts == InitAccounts /\ [][NextAccounts]_vars

\* ---------------------------------------------------------------------
\* impersonate_user scopes of tasks that run at once, as
\* _get_repo_collaborators opens them.
\* ---------------------------------------------------------------------

\* try: token = self.get_impersonation_token(username): GitHub refuses to
\* mint a token for a suspended identity.
FirstMint(t) ==
    /\ scopes.tasks[t].pc \in {"none", "retry"}
    /\ scopes' = [scopes EXCEPT !.tasks[t] =
                     IF scopes.suspended
                     THEN [@ EXCEPT !.pc = "unsuspend"]
                     ELSE [@ EXCEPT !.pc = "yielded", !.open = Append(@, FALSE)]]
    /\ UNCHANGED <<lists, inst, stack, ret, exc, last, step, trace>>
    /\ UNCHANGED <<pager, rotated, classified, webhook, polling, sync, collab, accounts>>

\* temporarily_unsuspend_user: response = self.unsuspend_user(...)
UnsuspendUser(t) ==
    /\ scopes.tasks[t].pc = "unsuspend"
    /\ scopes' = [scopes EXCEPT !.suspended = FALSE,
                                !.tasks[t].pc = "mint2",
                                !.tasks[t].open = Append(@, TRUE)]
    /\ UNCHANGED <<lists, inst, stack, ret, exc, last, step, trace>>
    /\ UNCHANGED <<pager, rotated, classified, webhook, polling, sync, collab, accounts>>

\* The second get_impersonation_token, inside temporarily_unsuspend_user:
\* the instance is yielded, or AccountSuspended leaves the scopes.
SecondMint(t) ==
    /\ scopes.tasks[t].pc = "mint2"
    /\ scopes' = [scopes EXCEPT !.tasks[t].pc =
                     IF scopes.suspended THEN "leaving" ELSE "yielded"]
    /\ UNCHANGED <<lists, inst, stack, ret, exc, last, step, trace>>
    /\ UNCHANGED <<pager, rotated, classified, webhook, polling, sync, collab, accounts>>

\* The body of the with block: the fetch with the impersonating instance.
\* GitHub answers AccountSuspended while the identity is suspended; then
\* _get_repo_collaborators calls itself, inside the block, while
\* retry < MAX_SYNC_RETRY.
UseInstance(t) ==
    /\ scopes.tasks[t].pc = "yielded"
    /\ scopes' = [scopes EXCEPT !.tasks[t] =
                     IF scopes.suspended /\ MayRetry(scopes.tasks[t].retry)
                     THEN [@ EXCEPT !.pc = "retry", !.retry = @ + 1]
                     ELSE [@ EXCEPT !.pc = "leaving"]]
    /\ UNCHANGED <<lists, inst, stack, ret, exc, last, step, trace>>
    /\ UNCHANGED <<pager, rotated, classified, webhook, polling, sync, collab, accounts>>

\* The innermost open scope is left: finally: self.suspend_user(...) when
\* it is a scope that unsuspended.
LeaveScope(t) ==
    LET task == scopes.tasks[t] IN
    /\ task.pc = "leaving"
    /\ scopes' = IF task.open = << >>
                 THEN [scopes EXCEPT !.tasks[t].pc = "done"]
                 ELSE [scopes EXCEPT
                          !.suspended = IF task.open[Len(task.open)] THEN TRUE ELSE @,
                          !.tasks[t].open = Front(task.open)]
    /\ UNCHANGED <<lists, inst, stack, ret, exc, last, step, trace>>
    /\ UNCHANGED <<pager, rotated, classified, webhook, polling, sync, collab, accounts>>

\* The identity is suspended and no task has begun.
InitScopes ==
    /\ Quiet
    /\ polling = NoPolling /\ sync = NoSync
    /\ collab = NoCollab /\ accounts = NoAccounts
    /\ scopes = [NoScopes EXCEPT !.suspended = TRUE]

NextScopes ==
    \/ \E t \in ScopeTasks : FirstMint(t)
    \/ \E t \in ScopeTasks : UnsuspendUser(t)
    \/ \E t \in ScopeTasks : SecondMint(t)
    \/ \E t \in ScopeTasks : UseInstance(t)
    \/ \E t \in ScopeTasks : LeaveScope(t)

SpecScopes == InitScopes /\ [][NextScopes]_vars

Next ==
    \/ CallVerb
    \/ CallRotateToken
    \/ CallGetImpersonationToken
    \/ CallImpersonateUser
    \/ RequestAttempt
    \/ RequestResume
    \/ TokenEnter
    \/ TokenProbe
    \/ ScopeResume
    \/ ScopeExit
    \/ Propagate
    \/ OperationEnds

Spec == Init /\ [][Next]_vars

(***************************************************************************)
(* Properties.                                                             *)
(***************************************************************************)
IsPrefix(a, b) == Len(a) <= Len(b) /\ a = SubSeq(b, 1, Len(a))
\* The frame on top of the stack is a request() frame at program point pc.
AtRequest(pc) == stack # << >> /\ Top.fn = "request" /\ Top.pc = pc
\* This step was an HTTP attempt of request() answered with a rate limit.
RateLimitedStep == step'.kind = "attempt" /\ step'.error = "RateLimitException"
\* The stack after the top frame f called request(verb, url, retry) on
\* itself and went on to program point pc (the options are left open).
Reissued(f, pc, retry) ==
    /\ Len(stack') = Len(stack) + 1
    /\ stack'[Len(stack)] = [f EXCEPT !.pc = pc]
    /\ stack'[Len(stack')] =
          RequestFrame(f.self, f.verb, f.url, retry, stack'[Len(stack')].kw)
\* Room for one more call.
Room == Len(stack) < MaxDepth

\* C1: when request() on an impersonating instance gets BadCredentials with
\* retry = 0, it mints one new impersonation token for the impersonated
\* identity, makes it the only credential and the Authorization header, and
\* re-issues the call once with retry = 1.
C1_RefreshMintsToken ==
    /\ (AtRequest("refresh") /\ Delivered) => exc # "InvalidImpersonationError"
    /\ step.kind = "refreshed" =>
          /\ Tokens(step.self) = <<inst[step.self].auth.token>>
          /\ inst[step.self].auth.token.owner = inst[step.self].impersonating
          /\ Room => AtRequest("call") /\ Top.retry = 1

\* C2: every call of request() ends, by a response or an error, within the
\* attempts its retry counter allows, whatever the server answers (rate
\* limits on the reset lookup included): the recursion never runs until the
\* interpreter's recursion limit.
C2_RequestEndsWithinRetryBound == exc # "RecursionError"

\* C3: a RateLimited answer handled with retry < tokenCount - 1 rotates the
\* token exactly once and calls request() once more with retry + 1; it does
\* not sleep and does not look up the reset time.  (Room: the call stack is
\* short of the recursion limit, so the call can be made.)
C3_RateLimitRotates ==
    [][ (RateLimitedStep /\ step'.retry < step'.count - 1 /\ Room) =>
          /\ lists' = [lists EXCEPT ![inst[Top.self].tokens] = RotatedTokens(@)]
          /\ inst' = [inst EXCEPT ![Top.self].auth = Bearer(Tokens(Top.self)[2])]
          /\ Reissued(Top, "return", Top.retry + 1)
          /\ exc' = "none"
          /\ step'.calls = <<"rotate_token", "request">>
      ]_vars
C3_Witness ==
    /\ step.kind = "attempt" /\ step.error = "RateLimitException"
    /\ step.retry < step.count - 1
    /\ AtRequest("call") /\ Top.retry = step.retry + 1
    /\ inst[Top.self].auth # step.auth

\* C4 (as claimed): a RateLimited answer handled with tokenCount - 1 <= retry
\* <= 2 * tokenCount leads to one sleep and then one more request with
\* retry + 1, with no rotation in between: once the reset lookup is over the
\* handler sleeps and re-issues, and nothing but the lookup's one HTTP call
\* happened meanwhile.  With retry > 2 * tokenCount the fatal error is raised
\* at once.
C4_RateLimitSleeps ==
    /\ (AtRequest("reset_time") /\ Delivered) =>
          /\ exc = "none"
          /\ step.kind = "attempt" /\ step.retry = 0
    /\ (step.kind = "attempt" /\ step.error = "RateLimitException"
          /\ step.retry > 2 * step.count) =>
          exc = "Exception: Rate limit retries failed"

\* C4 (amended): such an answer first looks the reset time up through
\* request(), rotating nothing; if the lookup returns, the handler sleeps once
\* for reset - now + 5 seconds (a negative duration is no error), rotates
\* nothing and calls request() once more with retry + 1; if the lookup
\* raises, the error goes to the caller with no sleep and no further request.
\* With retry > 2 * tokenCount the fatal error is raised with no lookup, no
\* sleep and no further request.  (Room: as for C3.)
C4_SleepAfterLookup ==
    [][ /\ (RateLimitedStep /\ step'.retry >= step'.count - 1
              /\ step'.retry <= 2 * step'.count /\ Room) =>
             /\ UNCHANGED <<lists, inst>>
             /\ stack' = Append(SetTop([Top EXCEPT !.pc = "reset_time"]),
                                RequestFrame(Top.self, "get", RATE_LIMIT, 0, NoKwargs))
        /\ (AtRequest("reset_time") /\ ret # NoValue /\ exc = "none") =>
             /\ step'.kind = "slept"
             /\ step'.error = "none"
             /\ \E now \in ClockTimes : step'.duration = ret.reset - now + SleepMargin
             /\ step'.calls = <<"sleep", "request">>
             /\ UNCHANGED <<lists, inst>>
             /\ Room => Reissued(Top, "return", Top.retry + 1) /\ exc' = "none"
        /\ (AtRequest("reset_time") /\ exc # "none") =>
             /\ exc' = exc
             /\ Len(stack') < Len(stack)
             /\ step'.kind # "slept"
        /\ (RateLimitedStep /\ step'.retry > 2 * step'.count) =>
             /\ exc' = "Exception: Rate limit retries failed"
             /\ stack' = Front(stack)
             /\ UNCHANGED <<lists, inst>>
      ]_vars
C4_Witness ==
    /\ step.kind = "slept" /\ step.duration < 0 /\ step.error = "none"
    /\ step.retry = 2 * step.count
    /\ AtRequest("call") /\ Top.retry = step.retry + 1 /\ Top.url = REPO_BY_ID

\* C5: no operation of the gateway fails to its caller with the RateLimited
\* error.
C5_RateLimitNeverSurfaces ==
    (stack = << >> \/ InScope) => exc # "RateLimitException"

\* C6: every attempt request() makes for one logical call is issued with the
\* same verb, the same URL and the same options as the attempt before it.
C6_RetriesKeepOptions ==
    \A k \in DOMAIN stack :
       (k < Len(stack) /\ stack[k].fn = "request" /\ stack[k].pc = "return") =>
          /\ stack[k + 1].verb = stack[k].verb
          /\ stack[k + 1].url = stack[k].url
          /\ stack[k + 1].kw = stack[k].kw

\* The calls of a scope that found the identity suspended, when the second
\* mint succeeds and when it fails.
C7_Unsuspended == <<"get_impersonation_token", "unsuspend_user", "get_impersonation_token",
                    "yield", "suspend_user">>
C7_SecondMintFailed == <<"get_impersonation_token", "unsuspend_user",
                         "get_impersonation_token", "suspend_user">>
C7_ScopeOver == stack = << >> /\ last.op = "impersonate_user"

\* C7: in impersonate_user, when the first token mint fails with
\* AccountSuspended, the calls are: unsuspend once, then the second mint,
\* then the yield, then suspend; once the unsuspend has returned the scope
\* never ends without exactly one suspend after it, whether the body
\* completes, the body raises or the second mint fails.
C7_SuspendFollowsUnsuspend ==
    /\ (Len(trace) >= 2 /\ trace[2] = "unsuspend_user") =>
          IsPrefix(trace, C7_Unsuspended) \/ IsPrefix(trace, C7_SecondMintFailed)
    /\ (InScope /\ Top.pc = "yielded_unsuspended") =>
          trace = SubSeq(C7_Unsuspended, 1, 4)
    /\ (C7_ScopeOver /\ Len(trace) >= 3) =>
          trace \in {C7_Unsuspended, C7_SecondMintFailed}
C7_Witness ==
    /\ C7_ScopeOver /\ last.status = "raised" /\ last.exc = "ValueError"
    /\ trace = C7_Unsuspended

\* C8: get_impersonation_token on an instance that is already impersonating
\* fails with InvalidImpersonationError and issues no HTTP call.
C8_NoNestedImpersonation ==
    [][ (stack # << >> /\ Top.fn = "get_impersonation_token" /\ Top.pc = "enter"
           /\ Running /\ inst[Top.self].impersonating # NoUser) =>
          /\ exc' = "InvalidImpersonationError"
          /\ ret' = NoValue
          /\ stack' = Front(stack)
          /\ step'.kind \notin {"attempt", "probe"}
          /\ step'.calls = << >>
      ]_vars
C8_Witness ==
    /\ InScope /\ exc = "InvalidImpersonationError"
    /\ last.op = "get_impersonation_token" /\ last.self = "child"
    /\ inst["child"].impersonating \in Users

\* C9: the token get_impersonation_token returns was minted with the scopes
\* ALL_SCOPES and is returned only after the probe made with it was answered
\* 2xx; when the probe fails its classified error is raised and no token is
\* returned.
C9_TokenScopedAndProbed ==
    /\ ret.tag = "token" =>
          /\ ret.token.scopes = ALL_SCOPES
          /\ step.kind = "probe" /\ step.error = "none"
          /\ step.auth = Bearer(ret.token)
    /\ (step.kind = "probe" /\ step.error # "none") =>
          ret = NoValue /\ exc = step.error

\* What an instance holds: its fields and the token list they refer to.
Credentials(i) == <<inst[i], lists[inst[i].tokens]>>
\* This step was an operation of instance i that can touch credentials.
ActsOn(i) == step'.self = i /\ step'.kind \in {"rotate_token", "attempt", "refreshed"}

\* C10: the instance impersonate_user yields is a new gateway whose
\* credential set is exactly the minted token and whose impersonating field
\* is the identity; it holds no list object of its parent, no operation on it
\* changes the parent's tokens, headers or impersonating field, and no
\* operation on the parent changes the child's.
C10_InstancesShareNothing ==
    /\ [](inst["child"].alive =>
            /\ inst["child"].tokens # inst["parent"].tokens
            /\ Tokens("child") = <<inst["child"].auth.token>>
            /\ inst["child"].impersonating \in Users
            /\ inst["child"].auth.token.owner = inst["child"].impersonating)
    /\ [][ (inst["child"].alive /\ inst'["child"].alive) =>
             /\ Credentials("parent")' # Credentials("parent") => ActsOn("parent")
             /\ Credentials("child")' # Credentials("child") => ActsOn("child")
         ]_vars
C10_Witness ==
    /\ inst["child"].alive /\ InScope
    /\ step.kind = "rotate_token" /\ step.self = "child"
    /\ Len(Tokens("parent")) = 2 /\ inst["parent"].auth = Bearer(Tokens("parent")[1])

\* Instances callers build from the configured token list.
Configured == {"parent", "peer"}

\* C11: two instances built from the same configured token list share no
\* mutable state: a rotate_token of one (called by the caller or made by a
\* rate-limited request) leaves the other's token order unchanged and the
\* other's Authorization header equal to "Bearer " + its own front token.
C11_SharedListInstancesIndependent ==
    [][ \A i, j \in Configured :
          (i # j /\ inst[i].alive /\ inst[j].alive /\ step'.self = i
             /\ step'.kind \in {"rotate_token", "attempt"}) =>
             /\ Tokens(j)' = Tokens(j)
             /\ inst'[j].auth = Bearer(Head(Tokens(j)'))
      ]_vars

\* C12: every instance holds a non-empty token sequence and its Authorization
\* header is "Bearer " + the front token, in every reachable state.
C12_HeaderIsFrontToken ==
    \A i \in Insts :
       inst[i].alive => Tokens(i) # << >> /\ inst[i].auth = Bearer(Head(Tokens(i)))

\* C13: constructing a gateway from an empty token sequence always fails with
\* the configuration error (ValueError) and creates no instance.
C13_EmptyTokensRejected ==
    /\ [](lists["settings"] = << >> => \A i \in Insts : ~inst[i].alive)
    /\ [][ (lists["settings"] = << >> /\ step'.kind = "GitHubInstance") =>
             /\ last'.status = "raised" /\ last'.exc = "ValueError"
             /\ UNCHANGED <<lists, inst>>
      ]_vars
C13_Witness ==
    /\ lists["settings"] = << >>
    /\ last.op = "GitHubInstance" /\ last.status = "raised" /\ last.exc = "ValueError"

\* How often token t occurs in the list.
Occurrences(tokens, t) == Cardinality({k \in DOMAIN tokens : tokens[k] = t})

\* C14: rotate_token moves the front token to the back and keeps the others
\* in order ([a, b, c] becomes [b, c, a]), makes the new front token the
\* Authorization token and preserves the multiset of tokens; as many
\* rotations in a row as there are tokens restore the order and the header
\* the instance started with.
C14_RotationCycles ==
    /\ [][ LET old == lists["settings"]
               new == lists'["settings"]
           IN /\ Len(new) = Len(old)
              /\ new[Len(new)] = old[1]
              /\ \A k \in 1..(Len(old) - 1) : new[k] = old[k + 1]
              /\ inst'["parent"].auth = Bearer(old[IF Len(old) > 1 THEN 2 ELSE 1])
              /\ \A t \in {old[k] : k \in DOMAIN old} \cup {new[k] : k \in DOMAIN new} :
                    Occurrences(new, t) = Occurrences(old, t)
         ]_vars
    /\ [](rotated.n = Len(rotated.origin) =>
             /\ lists["settings"] = rotated.origin
             /\ inst["parent"].auth = rotated.auth)
C14_Witness ==
    /\ Len(rotated.origin) = 3 /\ rotated.n = 3
    /\ Cardinality({rotated.origin[k] : k \in 1..3}) = 3
    /\ lists["settings"] = rotated.origin
    /\ inst["parent"].auth = Bearer(rotated.origin[1])

\* The response classified is a failed one (raise_for_status raises).
Failed == classified.done /\ classified.answer.status >= 400
\* Its message is one of the three strings matched by equality.
FixedMessage ==
    classified.answer.message \in {SuspendedMessage, BlockedMessage, BadCredentialsMessage}
\* Its message has the text "rate limit" in it.
NamesRateLimit ==
    \E k \in DOMAIN classified.answer.message.text :
       classified.answer.message.text[k] = "rate limit"

\* C15: the classifier applies a fixed precedence, first match wins: status
\* 422 is the client error, then status 404 is not found, then a message
\* equal to the suspension string, then the block string, then "Bad
\* credentials", then a message containing "rate limit"; a 422 or 404 response
\* is never classified by its message.
C15_ClassifierPrecedence ==
    Failed =>
       LET status == classified.answer.status
           message == classified.answer.message
       IN /\ status = 422 => classified.raised = "GithubClientException"
          /\ status = 404 => classified.raised = "GithubNotFoundException"
          /\ status \notin {422, 404} =>
                /\ message = SuspendedMessage =>
                      classified.raised = "GithubAccountSuspendedException"
                /\ message = BlockedMessage =>
                      classified.raised = "GithubRepositoryBlockedException"
                /\ message = BadCredentialsMessage =>
                      classified.raised = "GithubBadCredentialsException"
                /\ (message.has /\ ~FixedMessage /\ NamesRateLimit) =>
                      classified.raised = "RateLimitException"
C15_Witness ==
    /\ Failed /\ classified.answer = Answer(422, BadCredentialsMessage)
    /\ classified.raised = "GithubClientException"

\* C16: every failed response gets exactly one outcome, and a response whose
\* status is neither 422 nor 404 and whose body has no message, or a message
\* matching none of the fixed strings, is unclassified: the original HTTP
\* error is raised again unchanged.
C16_UnmatchedIsHTTPError ==
    (Failed /\ classified.answer.status \notin {422, 404}
       /\ ~FixedMessage /\ ~NamesRateLimit) =>
       classified.raised = "HTTPError"

\* The errors request() has no handler for, as the classifier names them.
Unhandled ==
    {"GithubClientException", "GithubNotFoundException", "GithubAccountSuspendedException",
     "GithubRepositoryBlockedException", "HTTPError"}

\* C17: when the response of an attempt is classified as ClientError, NotFound,
\* AccountSuspended, RepositoryBlocked or Unclassified, or as BadCredentials on
\* an instance that is not impersonating, request() raises that error at once:
\* that attempt is its only HTTP call, it rotates nothing, sleeps for nothing,
\* mints no token, and the token list and the headers stay as they were.
C17_OtherErrorsPropagate ==
    [][ (AtRequest("call") /\ Running /\ step'.kind = "attempt"
           /\ \/ step'.error \in Unhandled
              \/ /\ step'.error = "GithubBadCredentialsException"
                 /\ inst[Top.self].impersonating = NoUser) =>
          /\ exc' = step'.error
          /\ ret' = NoValue
          /\ stack' = Front(stack)
          /\ step'.calls = << >>
          /\ UNCHANGED <<lists, inst>>
      ]_vars
C17_Witness ==
    /\ step.kind = "attempt" /\ step.error = "GithubBadCredentialsException"
    /\ step.self = "parent" /\ step.retry = 0
    /\ stack = << >> /\ exc = "GithubBadCredentialsException"

\* The items of the pages, page after page.
RECURSIVE Flattened(_)
Flattened(pages) ==
    IF pages = << >> THEN << >>
    ELSE Flattened(SubSeq(pages, 1, Len(pages) - 1)) \o pages[Len(pages)].items
PagerOver == stack = << >> /\ last.op \in PagerFns /\ last.status = "returned"

\* C18: get_paginated_response and get_paginated_search_response yield every
\* item of every page, pages in order and items in order; the first fetch is
\* the URL with the page size added, every further fetch is the rel="next"
\* link of the response before it, each page is fetched with one get(), and
\* the iteration stops after the first response without a next relation.
C18_PagesInOrder ==
    pager.fn \in PagerFns =>
       /\ pager.yielded = Flattened(pager.served)
       /\ \A k \in DOMAIN pager.served :
             \A j \in DOMAIN pager.served[k].items :
                pager.served[k].items[j] = Item(k, j)
       /\ pager.fetched[1].ep = pager.url.ep
       /\ pager.fetched[1].arg \in {"?per_page=100", "?since=1&per_page=100",
                                    "?q=topic:public&per_page=100"}
       /\ Len(pager.fetched) \in {Len(pager.served), Len(pager.served) + 1}
       /\ \A k \in DOMAIN pager.served :
             IF k < Len(pager.fetched)
             THEN /\ \E n \in DOMAIN pager.served[k].links :
                        pager.served[k].links[n] = Link("next", pager.fetched[k + 1])
                  /\ pager.fetched[k + 1] = PageUrl(pager.url.ep, k + 1)
             ELSE \A n \in DOMAIN pager.served[k].links :
                     pager.served[k].links[n].rel # "next"
       /\ PagerOver => Len(pager.fetched) = Len(pager.served)
C18_Witness ==
    /\ PagerOver /\ pager.fn = "get_paginated_response"
    /\ Len(pager.served) = 2
    /\ pager.yielded = <<Item(1, 1), Item(1, 2), Item(2, 1), Item(2, 2)>>

\* The exceptions the classifier raises for a response with an error status.
HTTPErrors ==
    {"GithubClientException", "GithubNotFoundException", "GithubAccountSuspendedException",
     "GithubRepositoryBlockedException", "GithubBadCredentialsException", "HTTPError"}

\* C19: a page fetch of get_paginated_response or get_paginated_search_response
\* that comes back with a non-2xx status does not abort the pagination: the
\* error is logged and the iteration goes on with the next link of that
\* response.
C19_PageErrorIsLogged ==
    /\ (stack # << >> /\ Top.fn \in PagerFns) => exc \notin HTTPErrors
    /\ (stack = << >> /\ last.op \in PagerFns /\ last.status = "raised") =>
          last.exc \notin HTTPErrors

\* The request in hand carries "sha1=" and the digest of its body under the
\* configured key.
ValidSignature ==
    webhook.request.signature =
       Signature(<<"sha1", HMAC(WebhookKey, webhook.request.body)>>)
RoutingOutcomes == {"UnhandledActionException", "UnhandledEventException"}

\* C20: dispatch verifies the signature before it routes: for a request whose
\* signature is missing, names another algorithm or does not match, no
\* handler is invoked and no routing outcome is produced; a handler is invoked
\* only from the Verified state and at most once per request.
C20_VerifyBeforeRoute ==
    /\ [](/\ Len(webhook.invoked) <= 1
          /\ webhook.invoked # << >> =>
                ValidSignature /\ webhook.state \in {"Dispatched", "Responded"}
          /\ (~ValidSignature /\ webhook.state \notin {"Idle", "Unverified"}) =>
                /\ webhook.state \in {"Rejected", "Responded"}
                /\ webhook.invoked = << >>
                /\ webhook.result = "none"
                /\ webhook.raised \notin RoutingOutcomes \cup {"none"})
    /\ [][ (webhook'.invoked # webhook.invoked /\ webhook'.invoked # << >>) =>
             /\ webhook.state = "Verified"
             /\ webhook.invoked = << >>
         ]_vars
C20_Witness ==
    /\ webhook.state = "Rejected" /\ webhook.raised = "InvalidSignature"
    /\ webhook.request.signature = Signature(<<"sha1", HMAC("guess", "payload")>>)
    /\ webhook.registry[lower(webhook.request.event)].kind = "handler"
    /\ webhook.invoked = << >>

\* secure_github_request has just run on the request in hand.
SignatureChecked == webhook.state \in {"Verified", "Rejected"}
\* dispatch has just routed the request in hand.
Routed == webhook.state \in {"Dispatched", "Unhandled"}
\* The slot dispatch reads for the event of the request in hand.
Slot == webhook.registry[lower(webhook.request.event)]

\* C21: secure_github_request has exactly three outcomes over all inputs: it
\* returns iff the signature is "sha1=" followed by the HMAC-SHA1 digest of the
\* body under the configured secret, raises InvalidSignature when the
\* signature is absent or the digest differs, and raises
\* OperationNotSupported whenever the declared algorithm is not sha1.
C21_ThreeSignatureOutcomes ==
    SignatureChecked =>
       /\ webhook.raised \in {"none", "InvalidSignature", "OperationNotSupportedException"}
       /\ webhook.raised = "none" <=> ValidSignature
       /\ ~webhook.request.signature.present => webhook.raised = "InvalidSignature"
       /\ (webhook.request.signature.present
             /\ webhook.request.signature.parts[1] # "sha1") =>
             webhook.raised = "OperationNotSupportedException"

\* C22: dispatch of a correctly signed request whose event has no entry in
\* the registry fails with UnhandledEvent, an outcome distinct from
\* UnhandledAction, and invokes no handler.
C22_UnknownEventIsUnhandledEvent ==
    (Routed /\ \A e \in EventNames : webhook.registry[e].kind = "absent") =>
       /\ webhook.raised = "UnhandledEventException"
       /\ webhook.invoked = << >>

\* C23: after a catch-all handler is registered for an event, dispatch of a
\* correctly signed request for that event invokes that handler exactly once
\* and returns its result, whatever the action is (no action included).
C23_CatchAllHandlesEveryAction ==
    (Routed /\ webhook.call.action = NoName /\ webhook.registered = webhook.call.handler
       /\ webhook.request.event = webhook.call.event) =>
       /\ webhook.state = "Dispatched"
       /\ webhook.invoked = <<webhook.call.handler>>
       /\ webhook.result = webhook.call.handler

\* C24: for an event whose registry entry is an action map, dispatch of a
\* correctly signed request fails with UnhandledAction when no action is
\* supplied or the action has no handler in the map, and otherwise invokes
\* exactly the handler registered for that event and action and returns its
\* result; no other handler is invoked.
C24_ActionMapRouting ==
    /\ [][ (webhook'.call # webhook.call /\ webhook'.call.action # NoName
              /\ webhook'.registered = webhook'.call.handler) =>
             /\ webhook'.registry[lower(webhook'.call.event)].kind = "actions"
             /\ webhook'.registry[lower(webhook'.call.event)].actions[
                    lower(webhook'.call.action)] = webhook'.call.handler
             /\ \A e \in EventNames, a \in ActionNames :
                   (e # lower(webhook'.call.event) \/ a # lower(webhook'.call.action)) =>
                      webhook'.registry[e].actions[a] = webhook.registry[e].actions[a]
         ]_vars
    /\ []((Routed /\ Slot.kind = "actions") =>
             IF webhook.request.action = NoName
                   \/ Slot.actions[lower(webhook.request.action)] = "none"
             THEN /\ webhook.state = "Unhandled"
                  /\ webhook.raised = "UnhandledActionException"
                  /\ webhook.invoked = << >>
             ELSE /\ webhook.state = "Dispatched"
                  /\ webhook.invoked = <<Slot.actions[lower(webhook.request.action)]>>
                  /\ webhook.result = Slot.actions[lower(webhook.request.action)])
C24_Witness ==
    /\ webhook.state = "Dispatched" /\ Slot.kind = "actions"
    /\ webhook.call = Registration(Name("push", TRUE), Name("opened", FALSE), "handler2")
    /\ webhook.request.event = Name("push", FALSE)
    /\ webhook.request.action = Name("opened", TRUE)
    /\ webhook.invoked = <<"handler2">>

\* C25: event and action names are matched case-insensitively: a handler
\* registered, with or without an action, under any letter-casing of the
\* names is the one dispatch invokes for the same names in any other
\* letter-casing.
C25_NamesMatchInAnyCase ==
    (Routed /\ webhook.registered = webhook.call.handler
       /\ lower(webhook.request.event) = lower(webhook.call.event)
       /\ \/ webhook.call.action = NoName
          \/ /\ webhook.request.action # NoName
             /\ lower(webhook.request.action) = lower(webhook.call.action)) =>
       webhook.invoked = <<webhook.call.handler>>

\* C26: register(event, action) for an event whose slot, keyed by the
\* lower-cased event name, already holds a catch-all handler is rejected with
\* an error and leaves the registry unchanged: the catch-all stays the handler
\* for every action of that event.
C26_ActionAfterCatchAllRejected ==
    /\ [][ (webhook'.call # webhook.call /\ webhook'.call.action # NoName
              /\ webhook.registry[lower(webhook'.call.event)].kind = "handler") =>
             /\ webhook'.registered = "ValueError"
             /\ webhook'.registry = webhook.registry
         ]_vars
    /\ []((Routed /\ webhook.registered = "ValueError"
             /\ lower(webhook.request.event) = lower(webhook.call.event)) =>
             /\ Slot.kind = "handler"
             /\ webhook.invoked = <<Slot.handler>>)
C26_Witness ==
    /\ webhook.state = "Dispatched" /\ webhook.registered = "ValueError"
    /\ webhook.call.action = Name("opened", FALSE)
    /\ webhook.request.action = Name("opened", FALSE)
    /\ lower(webhook.request.event) = lower(webhook.call.event)
    /\ webhook.invoked = <<Slot.handler>>

\* C27: dispatch_webhook maps what dispatch did to the HTTP response:
\* UnhandledEvent or UnhandledAction to 204, OperationNotSupported to 501,
\* InvalidSignature to 403, and for a dispatched request the handler's own
\* response; dispatch itself produces no HTTP response, only a result or an
\* exception.
C27_OutcomesToResponses ==
    /\ webhook.state \in {"Unverified", "Verified", "Rejected", "Dispatched", "Unhandled"} =>
          webhook.response = "none"
    /\ webhook.state = "Responded" =>
          /\ webhook.raised \in {"UnhandledEventException", "UnhandledActionException"} =>
                webhook.response = "204"
          /\ webhook.raised = "OperationNotSupportedException" => webhook.response = "501"
          /\ webhook.raised = "InvalidSignature" => webhook.response = "403"
          /\ webhook.raised = "none" =>
                /\ webhook.invoked # << >>
                /\ webhook.response = webhook.invoked[1]
C27_Witness ==
    /\ webhook.state = "Responded"
    /\ webhook.raised = "OperationNotSupportedException" /\ webhook.response = "501"

(***************************************************************************)
(* Repo polling: properties.                                               *)
(***************************************************************************)
\* A line of the polling log that ends a call of get_and_update_repo.
IsUpdate(e) == e.op \notin {"is_reminder_candidate", "remind_repo"}
\* The update gave no repo: None came back, or an exception was raised.
FailedUpdate(e) == IsUpdate(e) /\ ~e.flag
ReturnedNone(e) == e.op = "get_and_update_repo" /\ ~e.flag
\* The repos of the log lines chosen by F, in the order of the log.
ReposOf(F(_)) ==
    LET chosen == SelectSeq(polling.log, F)
    IN  [i \in DOMAIN chosen |-> chosen[i].repo]
IsCandidateRead(e) == e.op = "is_reminder_candidate"
PollingOver == polling.pc \in {"done", "failed"}
\* The task has left the iteration of the k-th repo of the queue.
IterationOver(k) == k < polling.pos \/ (k = polling.pos /\ PollingOver)

\* Repos are read and updated in the order of the queue.
PolledInOrder ==
    /\ IsPrefix(ReposOf(IsCandidateRead), polling.queue)
    /\ IsPrefix(ReposOf(IsUpdate), polling.queue)

\* remind_repo is called for exactly the candidates whose update returned a repo.
RemindedIffCandidateAndUpdated ==
    \A k \in DOMAIN polling.queue :
       LET repo == polling.queue[k]
           reminded == \E i \in DOMAIN polling.log :
                          polling.log[i] = Event("remind_repo", repo, TRUE)
           candidate == \E i \in DOMAIN polling.log :
                           polling.log[i] = Event("is_reminder_candidate", repo, TRUE)
           updated == \E i \in DOMAIN polling.log :
                         polling.log[i] = Event("get_and_update_repo", repo, TRUE)
       IN  /\ reminded => (candidate /\ updated)
           /\ (IterationOver(k) /\ candidate /\ updated) => reminded

\* Once the task is over, every update chosen by F that was not the last of
\* the queue was followed by the read of the next repo.
Followed(F(_)) ==
    PollingOver =>
       \A i \in DOMAIN polling.log : \A k \in DOMAIN polling.queue :
          (F(polling.log[i]) /\ polling.queue[k] = polling.log[i].repo
             /\ k < Len(polling.queue)) =>
             \E j \in DOMAIN polling.log :
                /\ j > i
                /\ IsCandidateRead(polling.log[j])
                /\ polling.log[j].repo = polling.queue[k + 1]

\* A step that reads is_reminder_candidate reads it from the timestamp the
\* row had before any update of this task; a step that ends an update comes
\* right after the read for the same repo.
ReadBeforeUpdate ==
    Len(polling'.log) = Len(polling.log) + 1 =>
       LET e == polling'.log[Len(polling'.log)]
           checked == polling.db[e.repo].repo.last_polling_check
       IN  /\ IsCandidateRead(e) =>
                 /\ \A i \in DOMAIN polling.log : polling.log[i].repo # e.repo
                 /\ checked # polling.now
                 /\ e.flag <=> (checked = NoTime \/ checked + ReminderPeriod < polling.now)
           /\ IsUpdate(e) =>
                 /\ polling.log # << >>
                 /\ IsCandidateRead(polling.log[Len(polling.log)])
                 /\ polling.log[Len(polling.log)].repo = e.repo
                 /\ polling'.db[e.repo].stored =>
                       polling'.db[e.repo].repo.last_polling_check = polling.now

\* C28: repo_polling processes the repos returned by get_polling_repos in
\* order; for each one is_reminder_candidate is read before
\* get_and_update_repo overwrites last_polling_check; remind_repo is called
\* for a repo iff it was a candidate at that read and get_and_update_repo
\* returned a repo; a failed update of one repo (None returned or an
\* exception raised) does not stop the processing of the following repos.
C28_FailedUpdateDoesNotStop ==
    /\ [](PolledInOrder /\ RemindedIffCandidateAndUpdated /\ Followed(FailedUpdate))
    /\ [][ReadBeforeUpdate]_vars

\* C28 (amended): as above, where an update that returns None does not stop
\* the processing of the following repos, and the task stops early only
\* with the exception a get_and_update_repo call raised, after which
\* nothing more is read, updated or reminded.
C28_NoneReturnedDoesNotStop ==
    /\ [](/\ PolledInOrder
          /\ RemindedIffCandidateAndUpdated
          /\ Followed(ReturnedNone)
          /\ polling.pc = "failed" <=>
                /\ polling.log # << >>
                /\ polling.log[Len(polling.log)] =
                      Event(polling.call.raised, polling.queue[polling.pos], FALSE)
                /\ polling.call.raised # "none"
          /\ polling.pc = "done" => Len(SelectSeq(polling.log, IsUpdate)) = Len(polling.queue))
    /\ [][ReadBeforeUpdate]_vars

\* The update of the first repo returned None although the repo was a
\* candidate, and the task went on to update and remind the second repo.
C28_Witness ==
    /\ polling.pc = "done"
    /\ Len(polling.queue) >= 2
    /\ Len(polling.log) >= 5
    /\ polling.log[1] = Event("is_reminder_candidate", polling.queue[1], TRUE)
    /\ polling.log[2] = Event("get_and_update_repo", polling.queue[1], FALSE)
    /\ polling.log[3] = Event("is_reminder_candidate", polling.queue[2], TRUE)
    /\ polling.log[4] = Event("get_and_update_repo", polling.queue[2], TRUE)
    /\ polling.log[5] = Event("remind_repo", polling.queue[2], TRUE)

\* The latest call of get_and_update_repo: its fetches and what it left.
Fetched == polling.call.fetched
Called == Fetched # << >>
RowDeleted == ~polling.call.row.stored
AnsweredNotFound(i) == i <= Len(Fetched) /\ Fetched[i].kind = NotFound
\* The last fetch of the call was answered with a blocked repository.
AnsweredBlocked == Called /\ Fetched[Len(Fetched)].kind = RepositoryBlocked
OrgOwners == {"alice", "bob", GITHUB_OWNER_USER}

\* Deletion needs NotFound answers only; a blocked repo is disabled and
\* kept; both give None; no call fetches more than twice, and never twice
\* unless the first answer was NotFound.
DeletedOnlyWhenNotFound ==
    Called =>
       /\ Len(Fetched) <= 2
       /\ Len(Fetched) = 2 => (AnsweredNotFound(1) /\ polling.call.before.org)
       /\ RowDeleted => \A i \in DOMAIN Fetched : AnsweredNotFound(i)
       /\ (~polling.call.before.org /\ AnsweredNotFound(1)) =>
             (RowDeleted /\ Len(Fetched) = 1)
       /\ AnsweredBlocked =>
             /\ polling.call.row.stored
             /\ polling.call.row.repo.disabled
             /\ polling.call.local_repo.disabled
       /\ (RowDeleted \/ AnsweredBlocked) =>
             (polling.call.returned = None /\ polling.call.raised = "none")

\* What follows a first NotFound for a repo with an org: the owner becomes
\* the org owner, one more fetch is made, and the row goes iff that one is
\* NotFound too.
SecondFetch ==
    /\ Len(Fetched) = 2
    /\ polling.call.local_repo.owner \in OrgOwners
    /\ RowDeleted <=> AnsweredNotFound(2)

\* C29: get_and_update_repo deletes the local repo record only when GitHub
\* answers NotFound: a repo without an org is deleted after one NotFound
\* fetch; a repo with an org has its owner replaced by the org owner and is
\* fetched exactly once more, and is deleted only if that second fetch is
\* also NotFound; RepositoryBlocked marks the repo disabled and never
\* deletes it; in all these cases None is returned and at most two fetches
\* are made.
C29_OrgRepoFetchedTwice ==
    /\ DeletedOnlyWhenNotFound
    /\ (polling.call.before.org /\ AnsweredNotFound(1)) => SecondFetch

\* C29 (amended): as above, where the owner of a repo with an org is
\* replaced and the second fetch is made when get_org_owner returns an
\* owner; when it raises, the call ends with that exception after the one
\* fetch, the owner and the row are kept.
C29_OrgRepoFetchedTwiceWithOwner ==
    /\ DeletedOnlyWhenNotFound
    /\ (polling.call.before.org /\ AnsweredNotFound(1)) =>
          IF polling.call.raised = "GithubOwnerDoesNotExistError"
          THEN /\ Len(Fetched) = 1
               /\ polling.call.row.stored
               /\ polling.call.local_repo.owner = polling.call.before.owner
          ELSE SecondFetch

\* An org repo was not found twice: its owner was replaced by an admin of
\* the org, two fetches were made, the row is gone and None came back.
C29_Witness ==
    /\ polling.call.before.org
    /\ Len(Fetched) = 2 /\ AnsweredNotFound(1) /\ AnsweredNotFound(2)
    /\ polling.call.local_repo.owner = "alice"
    /\ RowDeleted
    /\ polling.call.returned = None
    /\ polling.pc = "decide"

(***************************************************************************)
(* Collaborator sync: properties.                                          *)
(***************************************************************************)
\* Where a sync task stands.
InLock(t) == sync.tasks[t].pc \in {"locked", "compare", "update"}
Proceeded(t) == sync.tasks[t].pc \in {"syncing", "fetched"}
Decided(t) == sync.tasks[t].pc \in {"syncing", "fetched", "skipped", "missing"}
SentAt(t) == strptime(sync.tasks[t].sent)
\* The requests of S were all sent before the first of them took the lock.
SentBeforeFirstLock(S) ==
    /\ S # {}
    /\ \A t \in S : sync.tasks[t].pc # "none"
    /\ \E first \in S :
          /\ sync.tasks[first].locked_at # NoTime
          /\ \A t \in S :
                /\ sync.tasks[t].locked_at # NoTime =>
                      sync.tasks[first].locked_at <= sync.tasks[t].locked_at
                /\ SentAt(t) <= sync.tasks[first].locked_at
\* Comparison and update are made by the holder of the lock.
LockHeldInside == \A t \in SyncTasks : InLock(t) => sync.lock = t

Attempted(w) ==
    /\ collab.tasks[w].pc = "syncing"
    /\ collab'.tasks[w] # collab.tasks[w]

Answered(w, error) == Attempted(w) /\ collab'.latest.kind = error

\* C31: when the collaborator fetch of run_sync_repo_collaborators fails
\* with NotFound, a repo with an org gets the org's owner as its owner and
\* _get_repo_collaborators is called exactly once more, under that owner;
\* for a user repo the NotFound propagates without a second call and
\* sync_repo_collaborators_task swallows it, as it does a NotFound of the
\* second call: the task ends logged, without error.
C31_NotFoundTriesOrgOwnerOnce ==
    /\ [](\A w \in Writers :
            /\ collab.tasks[w].call <= 2
            /\ collab.tasks[w].call = 2 =>
                  collab.org /\ collab.tasks[w].owner = OrgOwner)
    /\ [][\A w \in Writers :
            /\ ~Answered(w, NotFound) => collab'.tasks[w].call \in {collab.tasks[w].call, 1}
            /\ Answered(w, NotFound) =>
                  IF collab.org /\ collab.tasks[w].call = 1
                  THEN /\ collab'.owner = OrgOwner
                       /\ collab'.tasks[w] = Writer("syncing", OrgOwner, 2, 0, 0, NoFetch)
                  ELSE /\ collab'.tasks[w].pc = "logged"
                       /\ collab'.tasks[w].call = collab.tasks[w].call
                       /\ collab'.collaborators = collab.collaborators]_vars

C31_Witness ==
    \E w \in Writers :
        /\ collab.org
        /\ collab.tasks[w] = Writer("finished", OrgOwner, 2, 0, 1, Collaborators({"u1"}))
        /\ collab.owner = OrgOwner
        /\ collab.collaborators = {"u1"}

\* C32: _get_repo_collaborators returns None for a blocked repository
\* without another attempt; an attempt that fails with AccountSuspended is
\* followed by one more attempt while retry < MAX_SYNC_RETRY, so that a
\* call makes at most MAX_SYNC_RETRY + 1 attempts; the call returns the
\* first list it gets, and None when every attempt failed with
\* AccountSuspended.
C32_RetriesWhileSuspended ==
    /\ [](\A w \in Writers :
            /\ collab.tasks[w].attempts <= MAX_SYNC_RETRY + 1
            /\ collab.tasks[w].pc = "syncing" =>
                  collab.tasks[w].attempts = collab.tasks[w].retry
            /\ collab.tasks[w].pc = "fetched" =>
                  collab.tasks[w].attempts = collab.tasks[w].retry + 1)
    /\ [][\A w \in Writers :
            /\ Answered(w, RepositoryBlocked) =>
                  collab'.tasks[w] =
                      [collab.tasks[w] EXCEPT !.pc = "fetched", !.attempts = @ + 1,
                                              !.collaborators = NoCollaborators]
            /\ Answered(w, AccountSuspended) =>
                  IF collab.tasks[w].attempts < MAX_SYNC_RETRY
                  THEN collab'.tasks[w] =
                           [collab.tasks[w] EXCEPT !.retry = @ + 1, !.attempts = @ + 1]
                  ELSE collab'.tasks[w] =
                           [collab.tasks[w] EXCEPT !.pc = "fetched", !.attempts = @ + 1,
                                                   !.collaborators = NoCollaborators]
            /\ Answered(w, "list") =>
                  collab'.tasks[w] =
                      [collab.tasks[w] EXCEPT !.pc = "fetched", !.attempts = @ + 1,
                                              !.collaborators = collab'.latest]]_vars

C32_Witness ==
    \E w, v \in Writers :
        /\ collab.tasks[w].pc = "fetched"
        /\ collab.tasks[w].attempts = MAX_SYNC_RETRY + 1
        /\ collab.tasks[w].collaborators = Collaborators({"u2", "ghost"})
        /\ collab.tasks[v].pc = "fetched"
        /\ collab.tasks[v].attempts = MAX_SYNC_RETRY + 1
        /\ collab.tasks[v].collaborators = NoCollaborators

WritersOver ==
    \A w \in Writers : collab.tasks[w].pc \in {"finished", "no access", "logged"}

\* C40: once every run_sync_repo_collaborators task of the repo is over,
\* the local collaborator set is the result of the fetch that was issued
\* last (here: when that fetch returned users).
C40_LastFetchWins ==
    (WritersOver /\ Truthy(collab.latest)) =>
        collab.collaborators = filter(collab.latest.users)

\* ---------------------------------------------------------------------
\* Successive runs of repo_polling
\* ---------------------------------------------------------------------

Rows == {r \in Repos : polling.db[r].stored}
RunOver == polling.pc \in {"done", "failed"}
\* The run that ends here closes a window of PollingPeriods runs over the
\* same rows.
WindowOver == RunOver /\ polling.run >= PollingPeriods /\ Rows = Repos
PolledInWindow == \A r \in Rows : polling.polled[r] > polling.run - PollingPeriods
\* The queue holds the share of one polling period, oldest check first,
\* never-checked rows before all others.
OldestShare(db, queue) ==
    LET rows == {r \in Repos : db[r].stored}
        checked(r) == db[r].repo.last_polling_check
        chosen == {queue[i] : i \in DOMAIN queue}
    IN  /\ Len(queue) * PollingPeriods >= Cardinality(rows)
        /\ (Len(queue) - 1) * PollingPeriods < Cardinality(rows)
        /\ chosen \subseteq rows
        /\ Cardinality(chosen) = Len(queue)
        /\ \A i, j \in DOMAIN queue : i < j => checked(queue[i]) <= checked(queue[j])
        /\ \A r \in rows \ chosen : \A q \in chosen : checked(q) <= checked(r)

UserReturned(c) == accounts.calls[c].pc = "returned"

\* C34: however the calls of from_github_user for one GitHub user
\* interleave, at most one row has the user's github id; once a call has
\* returned exactly one has, and every call returns that row; a call that
\* met an IntegrityError finds the row when it reads again by github id.
C34_OneUserPerGithubId ==
    /\ Cardinality(ByGithubId(accounts.rows, GitHubId)) <= 1
    /\ \A c \in Callers :
          /\ UserReturned(c) => ByGithubId(accounts.rows, GitHubId) = {accounts.calls[c].pk}
          /\ accounts.calls[c].pc = "reget" => ByGithubId(accounts.rows, GitHubId) # {}
          /\ accounts.calls[c].pc # "DoesNotExist"

C34_Witness ==
    \E c, d \in Callers :
        /\ UserReturned(c) /\ UserReturned(d)
        /\ accounts.calls[c].pk = accounts.calls[d].pk
        /\ accounts.calls[c].login # accounts.calls[d].login
        /\ ~accounts.calls[c].integrity_error
        /\ accounts.calls[d].integrity_error
        /\ accounts.rows = <<UserRow("alice", OldId), UserRow("alice2", GitHubId)>>

\* ---------------------------------------------------------------------
\* Chains of rate-limited attempts
\* ---------------------------------------------------------------------

\* The request() frames of the instance of the top frame that lie on top of
\* the stack, one upon the other: the attempts of the call in hand and of
\* the reset lookups made for it.
IsRequestOf(i, k) == stack[k].fn = "request" /\ stack[k].self = i
ChainStart ==
    CHOOSE k \in DOMAIN stack :
        /\ \A j \in k..Len(stack) : IsRequestOf(Top.self, j)
        /\ k = 1 \/ ~IsRequestOf(Top.self, k - 1)
ChainFrames == {stack[k] : k \in ChainStart..Len(stack)}
\* Frames whose rate limit was handled by a rotation, and by a sleep.
RotatedFrames ==
    {f \in ChainFrames : f.pc = "return" /\ f.retry < Len(Tokens(Top.self)) - 1}
SleptFrames ==
    {f \in ChainFrames : f.pc = "return" /\ f.retry >= Len(Tokens(Top.self)) - 1}
\* The tokens that were answered with a rate limit in the chain: the ones
\* rotated to the back of the list, and the active one.
LimitedTokens ==
    LET tokens == Tokens(Top.self)
        m == Cardinality(RotatedFrames)
    IN  {tokens[k] : k \in (Len(tokens) - m + 1)..Len(tokens)} \cup {Head(tokens)}

\* C35: in a chain of consecutive RateLimited answers that starts at retry
\* 0, as long as the chain has not slept no rotation makes a token active
\* that was already answered with a rate limit in the chain.
C35_NoLimitedTokenActiveAgain ==
    [][(AtRequest("call") /\ RateLimitedStep /\ step'.retry < step'.count - 1
            /\ SleptFrames = {}) =>
          inst'[Top.self].auth.token \notin LimitedTokens]_vars

Fatal == "Exception: Rate limit retries failed"
\* The fatal error has just been raised by an attempt.
FatalRaised == exc = Fatal /\ step.kind = "attempt"
\* The frames left on the stack are the attempts with retry 0 .. last of the
\* call that ended, each waiting for the next one to return.
AttemptsBelow(last_retry) ==
    /\ Len(stack) >= last_retry + 1
    /\ \A r \in 0..last_retry :
          stack[Len(stack) - last_retry + r] =
              [RequestFrame(step.self, step.verb, step.url, r,
                            stack[Len(stack) - last_retry + r].kw) EXCEPT !.pc = "return"]

\* C36: when every answer to the URL is RateLimited and every reset lookup
\* returns, a request on an instance with n tokens ends with the fatal
\* error at its attempt with retry 2n + 1, the (2n + 2)th; the attempts
\* before it were each re-issued with retry + 1, those with retry < n - 1
\* after a rotation and those with n - 1 <= retry <= 2n after a sleep; and
\* the fatal error is raised by no other step than a RateLimited attempt
\* with retry > 2n (the frames of other methods only pass it on).
C36_FatalAfterAllRetries ==
    /\ [](FatalRaised =>
            /\ step.retry = 2 * step.count + 1
            /\ AttemptsBelow(2 * step.count))
    /\ [][/\ (exc' = Fatal /\ exc # Fatal /\ stack # << >> /\ Top.fn = "request") =>
                (RateLimitedStep /\ step'.retry > 2 * step'.count)
          /\ (stack # << >> /\ Top.fn = "request" /\ Top.url # RATE_LIMIT
                /\ Reissued(Top, "return", Top.retry + 1)) =>
                \/ /\ RateLimitedStep
                   /\ Top.retry < step'.count - 1
                   /\ lists' = [lists EXCEPT ![inst[Top.self].tokens] = RotatedTokens(@)]
                \/ /\ step'.kind = "slept"
                   /\ Top.retry >= step'.count - 1
                   /\ Top.retry <= 2 * step'.count
                   /\ UNCHANGED lists]_vars

C36_Witness ==
    /\ FatalRaised
    /\ step.count = 2
    /\ step.retry = 5
    /\ step.url = REPO_BY_ID
    /\ Len(stack) = 5

\* C37: a catch-all handler registered for an event that has per-action
\* handlers is accepted and takes the place of the event's action map;
\* afterwards a correctly signed request for that event, with any action or
\* none, invokes the catch-all and no action handler.
C37_CatchAllReplacesActionMap ==
    /\ [][(webhook'.call # webhook.call /\ webhook'.call.action = NoName
             /\ webhook.registry[lower(webhook'.call.event)].kind = "actions") =>
            /\ webhook'.registered = webhook'.call.handler
            /\ webhook'.registry[lower(webhook'.call.event)] =
                  EventHandler(webhook'.call.handler)]_vars
    /\ []((Routed /\ webhook.call.action = NoName
             /\ webhook.registered = webhook.call.handler
             /\ lower(webhook.request.event) = lower(webhook.call.event)) =>
            webhook.invoked = <<webhook.call.handler>>)

\* ---------------------------------------------------------------------
\* impersonate_user: which scopes suspend
\* ---------------------------------------------------------------------

\* The scope frame has the outcome of its unsuspend call in hand: a failure.
UnsuspendFailed ==
    /\ stack # << >> /\ Top.fn = "impersonate_user" /\ Top.pc = "unsuspend"
    /\ exc # "none"

\* C39: a scope of impersonate_user whose first mint succeeds makes no
\* unsuspend and no suspend call, however it ends; a scope whose unsuspend
\* call fails is left with that error, with no suspend call and nothing
\* yielded; and a suspend call is made only by a scope whose own unsuspend
\* call returned before.
C39_SuspendOnlyAfterOwnUnsuspend ==
    /\ []((Len(trace) >= 2 /\ trace[2] = "yield") =>
             trace = <<"get_impersonation_token", "yield">>)
    /\ [](\A k \in DOMAIN trace :
             trace[k] = "suspend_user" =>
                /\ k >= 4
                /\ trace[2] = "unsuspend_user"
                /\ trace[3] = "get_impersonation_token")
    /\ [][/\ UnsuspendFailed =>
                /\ trace' = trace /\ exc' = exc
                /\ stack' = Front(stack)
                /\ ~inst'["child"].alive
          /\ (Len(trace) = 2 /\ trace[2] = "unsuspend_user" /\ Len(trace') = 3) =>
                /\ exc = "none" /\ ret.tag = "response"
                /\ ret.status >= 200 /\ ret.status < 300]_vars

C39_Witness ==
    /\ C7_ScopeOver
    /\ last.status = "raised"
    /\ trace = <<"get_impersonation_token", "unsuspend_user">>
    /\ ~inst["child"].alive

\* ---------------------------------------------------------------------
\* Overlapping impersonate_user scopes
\* ---------------------------------------------------------------------

\* C38: while a task is inside the body of its impersonate_user scope, with
\* the instance yielded to it, no exit of another scope has suspended the
\* identity again.
C38_UnsuspendedUntilLastExit ==
    \A t \in ScopeTasks : scopes.tasks[t].pc = "yielded" => ~scopes.suspended

====
